---- MODULE Spec2Model ----
(***************************************************************************)
(* Model of neuroarch's QueryWrapper (src/neuroarch/query.py): the query   *)
(* expression tree, the node/edge result caches with their execution       *)
(* flags, the set combinators, edge induction and the traversal            *)
(* generators, evaluated against a small property-graph store; of the diff *)
(* engine (src/neuroarch/diff.py), of the batch apply engine               *)
(* (src/neuroarch/apply_diff.py), of the synchronization of edited tables  *)
(* with the store (diff_save) and of the tagging of query results.         *)
(***************************************************************************)
EXTENDS Integers, Sequences, FiniteSets, TLC

VARIABLES store, w, last, reads, A, B, C, R

vars == <<store, w, last, reads, A, B, C, R>>

(***************************************************************************)
(* The store: a property graph.  Vertices and edges are drawn from a fixed *)
(* universe; a store state says which of them currently exist and what the *)
(* mutable attribute `val` of each vertex is.                              *)
(***************************************************************************)
Vertices == {"n1", "n2", "n3", "ds"}

Class == [n1 |-> "Neuron", n2 |-> "Synapse", n3 |-> "Neuron", ds |-> "DataSource"]

\* the `name` attribute; "ds" is a DataSource whose name is "uiyth"
Name == [n1 |-> "a", n2 |-> "b", n3 |-> "c", ds |-> "uiyth"]

\* the numeric attribute `N`, which only a Synapse has
HasN == {"n2"}
NAttr == [n1 |-> 0, n2 |-> 5, n3 |-> 0, ds |-> 0]

\* class hierarchy of the schema: Neuron, Synapse and DataSource are BioNodes
IsInstance(v, c) ==
  \/ Class[v] = c
  \/ c = "BioNode" /\ Class[v] \in {"Neuron", "Synapse", "DataSource"}

EdgeDef ==
  [e1 |-> [out |-> "n1", in |-> "n2", cls |-> "SendsTo"],
   e2 |-> [out |-> "n2", in |-> "n3", cls |-> "SendsTo"],
   e3 |-> [out |-> "n3", in |-> "n1", cls |-> "SendsTo"],
   e4 |-> [out |-> "n1", in |-> "n2", cls |-> "Owns"],
   e5 |-> [out |-> "n2", in |-> "n3", cls |-> "Owns"],
   e6 |-> [out |-> "n1", in |-> "n3", cls |-> "Owns"]]

EdgeIds == DOMAIN EdgeDef

\* the record the store returns for a vertex / an edge
NodeRec(st, v) == [rid |-> v, cls |-> Class[v], val |-> st.val[v]]

EdgeRec(x) == [rid |-> x, cls |-> EdgeDef[x].cls,
               out |-> EdgeDef[x].out, in |-> EdgeDef[x].in]

EmptyDict == [k \in {} |-> TRUE]

records_to_dict(records) ==
  [k \in {r.rid : r \in records} |-> CHOOSE r \in records : r.rid = k]

(***************************************************************************)
(* Query strings.  A leaf of the expression tree is a QueryString; the     *)
(* model keeps the parameters the source formats into the SQL text.        *)
(***************************************************************************)
\* 'select from <cls>'
QClass(c) == [k |-> "leaf", kind |-> "class", cls |-> c]

\* 'select from [rids]'
QRids(rids) == [k |-> "leaf", kind |-> "rids", rids |-> rids]

\* 'select from #-1:0'
QNone == [k |-> "leaf", kind |-> "none"]

\* 'select from DataSource where name = "uiyth"'
QUiyth == [k |-> "leaf", kind |-> "uiyth"]

\* intersect(oute(cls) from [rids], ine(cls) from [rids]); cls = "" is any class
QEdges(rids, cls) == [k |-> "leaf", kind |-> "edges", rids |-> rids, cls |-> cls]

QOp(op, l, r) == [k |-> "op", op |-> op, l |-> l, r |-> r]

edge_query_from_node_rids(node_rids, edge_class) ==
  IF node_rids = {} THEN QUiyth ELSE QEdges(node_rids, edge_class)

(***************************************************************************)
(* Node filters built by _kwargs: a class filter and attribute predicates. *)
(* A filter argument dictionary is a record                                *)
(*   [cls |-> set of class names ({} when absent),                         *)
(*    instanceof |-> class name ("" when absent),                          *)
(*    attrs |-> set of [key, op, bound] comparator predicates].            *)
(***************************************************************************)
NoFilter == [cls |-> {}, instanceof |-> "", attrs |-> {}]

\* _kwargs: the `classes` clause and the `attrs` list of an argument dict
kwargs_(kw) ==
  [classes |-> IF kw.instanceof # "" THEN [how |-> "instanceof", c |-> {kw.instanceof}]
               ELSE IF kw.cls # {} THEN [how |-> "cls", c |-> kw.cls]
               ELSE [how |-> "", c |-> {}],
   attrs |-> kw.attrs]

\* the store's evaluation of a `classes` clause on vertex v
ClassOK(classes, v) ==
  CASE classes.how = "" -> TRUE
    [] classes.how = "cls" -> Class[v] \in classes.c
    [] classes.how = "instanceof" -> \E c \in classes.c : IsInstance(v, c)

\* the store's evaluation of one attribute predicate "N <op> <bound>"
\* (a comparison with a missing attribute is false)
AttrOK(p, v) ==
  /\ v \in HasN
  /\ CASE p.op = ">" -> NAttr[v] > p.bound
      [] p.op = "<" -> NAttr[v] < p.bound
      [] p.op = "=" -> NAttr[v] = p.bound
      [] p.op = ">=" -> NAttr[v] >= p.bound
      [] p.op = "<=" -> NAttr[v] <= p.bound

\* one hop along edges of class rel, outward or inward, from vertex set S
Hop(st, direction, rel, S) ==
  IF direction = "out"
  THEN {EdgeDef[x].in : x \in {y \in st.E : EdgeDef[y].cls = rel /\ EdgeDef[y].out \in S}}
  ELSE {EdgeDef[x].out : x \in {y \in st.E : EdgeDef[y].cls = rel /\ EdgeDef[y].in \in S}}

\* expand(out('owns').out('owns')...) : n chained hops
RECURSIVE Hops(_, _, _, _, _)
Hops(st, direction, rel, S, n) ==
  IF n = 0 THEN S ELSE Hops(st, direction, rel, Hop(st, direction, rel, S), n - 1)

\* 'select <columns> from (select expand(<levels hops of owns>) from [rids]) <classes>'
QOwn(direction, levels, rids, classes) ==
  [k |-> "leaf", kind |-> "own", dir |-> direction, levels |-> levels,
   rids |-> rids, classes |-> classes]

\* one stage variable of _gen_traversal:
\* '$q<t> = (select from (select expand(<dir>(<rel>)) from $q<t-1>) <classes> <attrs_query>)'
StageQuery(direction, a) ==
  LET f == kwargs_(a.args)
  IN [dir |-> direction, rel |-> a.rel, classes |-> f.classes, attrs |-> f.attrs]

\* list(q.keys())[min_depth:max_depth] on a list of n keys (Python slice)
PySliceIdx(n, lo, hi) ==
  LET norm(i) == IF i < 0 THEN (IF i + n < 0 THEN 0 ELSE i + n)
                 ELSE IF i > n THEN n ELSE i
  IN {i \in 0..(n - 1) : norm(lo) <= i /\ i < norm(hi)}

\* 'select expand($q) let $q0 = (select from [rids]), $q1 = ..., $q = unionall(<selected>)'
QTrav(rids, stages, sel) ==
  [k |-> "leaf", kind |-> "trav", rids |-> rids, stages |-> stages, sel |-> sel]

\* every stage expanded from $q0 instead of from the previous stage
RECURSIVE TravVar_from_q0(_, _, _)
TravVar_from_q0(st, q, t) ==
  IF t = 0 THEN q.rids \cap st.V
  ELSE LET s == q.stages[t]
       IN {v \in Hop(st, s.dir, s.rel, q.rids \cap st.V) :
             ClassOK(s.classes, v) /\ \A p \in s.attrs : AttrOK(p, v)}

\* the store's value of $q<t> of a traversal query
RECURSIVE TravVar(_, _, _)
TravVar(st, q, t) ==
  IF t = 0 THEN q.rids \cap st.V
  ELSE LET s == q.stages[t]
       IN {v \in Hop(st, s.dir, s.rel, TravVar(st, q, t - 1)) :
             ClassOK(s.classes, v) /\ \A p \in s.attrs : AttrOK(p, v)}

(***************************************************************************)
(* The store's answer to a read query: the set of records it returns.      *)
(***************************************************************************)
execute_query(st, q) ==
  CASE q.kind = "class" -> {NodeRec(st, v) : v \in {u \in st.V : IsInstance(u, q.cls)}}
    [] q.kind = "rids" -> {NodeRec(st, v) : v \in q.rids \cap st.V}
    [] q.kind = "none" -> {}
    [] q.kind = "uiyth" ->
         {NodeRec(st, v) : v \in {u \in st.V : Class[u] = "DataSource" /\ Name[u] = "uiyth"}}
    [] q.kind = "edges" ->
         {EdgeRec(x) : x \in {y \in st.E : /\ EdgeDef[y].out \in q.rids
                                           /\ EdgeDef[y].in \in q.rids
                                           /\ q.cls \in {"", EdgeDef[y].cls}}}
    [] q.kind = "own" ->
         {NodeRec(st, v) : v \in {u \in Hops(st, q.dir, "Owns", q.rids \cap st.V, q.levels) :
                                    ClassOK(q.classes, u)}}
    [] q.kind = "trav" ->
         {NodeRec(st, v) : v \in UNION {TravVar(st, q, t) : t \in q.sel}}

(***************************************************************************)
(* Dictionary combinations (static methods of QueryWrapper).               *)
(***************************************************************************)
dict_intersection(a, b) ==
  [k \in (DOMAIN a) \cap (DOMAIN b) |-> a[k]]

\* union that keeps only the left operand's entries
dict_union_left(a, b) ==
  [k \in DOMAIN a |-> a[k]]

dict_union(a, b) ==
  [k \in (DOMAIN a) \cup (DOMAIN b) |-> IF k \in DOMAIN b THEN b[k] ELSE a[k]]

dict_difference(a, b) ==
  [k \in (DOMAIN a) \ (DOMAIN b) |-> a[k]]

dict_symmetric_difference(a, b) ==
  [k \in ((DOMAIN a) \ (DOMAIN b)) \cup ((DOMAIN b) \ (DOMAIN a)) |->
     IF k \in DOMAIN a THEN a[k] ELSE b[k]]

\* a dispatch that takes every operator symbol for the union
combine_always_union(op, r1, r2) ==
  dict_union(r1, r2)

\* the dispatch on the operator symbol in execute.e
combine(op, r1, r2) ==
  CASE op \in {"*", "&"} -> dict_intersection(r1, r2)
    [] op \in {"+", "|"} -> dict_union(r1, r2)
    [] op = "-" -> dict_difference(r1, r2)
    [] op = "^" -> dict_symmetric_difference(r1, r2)

\* execute.e: post-order evaluation of the expression tree against the store
RECURSIVE e(_, _)
e(st, q) ==
  IF q.k = "leaf" THEN records_to_dict(execute_query(st, q))
  ELSE combine(q.op, e(st, q.l), e(st, q.r))

\* number of store reads one evaluation of the tree issues (one per leaf)
RECURSIVE LeafCount(_)
LeafCount(q) ==
  IF q.k = "leaf" THEN 1 ELSE LeafCount(q.l) + LeafCount(q.r)

(***************************************************************************)
(* QueryWrapper: [query, nodes, edges, executed, edge_executed].           *)
(* An operation returns the wrapper it leaves behind together with the     *)
(* number of node (leaf) reads and edge reads it sent to the store.        *)
(***************************************************************************)
Ret(wr, nr, ne) == [w |-> wr, nr |-> nr, ne |-> ne]

\* execute without the "results have already been cached" test
execute_uncached(wr, st, edges, force) ==
  LET nodes == e(st, wr.query)
  IN Ret([query |-> wr.query,
          nodes |-> nodes,
          edges |-> IF edges
                    THEN records_to_dict(execute_query(st,
                           edge_query_from_node_rids(DOMAIN nodes, "")))
                    ELSE wr.edges,
          executed |-> TRUE,
          edge_executed |-> wr.edge_executed \/ edges],
         LeafCount(wr.query), IF edges THEN 1 ELSE 0)

\* QueryWrapper.execute(edges, force), connect = False
execute(wr, st, edges, force) ==
  IF wr.executed /\ ~force
  THEN IF wr.edge_executed
       THEN Ret(wr, 0, 0)
       ELSE IF edges
            THEN Ret([wr EXCEPT
                        !.edges = records_to_dict(execute_query(st,
                                    edge_query_from_node_rids(DOMAIN wr.nodes, ""))),
                        !.edge_executed = TRUE], 0, 1)
            ELSE Ret(wr, 0, 0)
  ELSE LET nodes == e(st, wr.query)
           fetch == edges /\ ~wr.edge_executed
       IN Ret([query |-> wr.query,
               nodes |-> nodes,
               edges |-> IF fetch
                         THEN records_to_dict(execute_query(st,
                                edge_query_from_node_rids(DOMAIN nodes, "")))
                         ELSE wr.edges,
               executed |-> TRUE,
               edge_executed |-> wr.edge_executed \/ fetch],
              LeafCount(wr.query), IF fetch THEN 1 ELSE 0)

\* QueryWrapper.execute_edges(edge_class)
execute_edges(wr, st, edge_class) ==
  IF wr.executed
  THEN IF wr.edge_executed
       THEN Ret(wr, 0, 0)
       ELSE Ret([wr EXCEPT
                   !.edges = records_to_dict(execute_query(st,
                               edge_query_from_node_rids(DOMAIN wr.nodes, edge_class))),
                   !.edge_executed = TRUE], 0, 1)
  ELSE execute(wr, st, TRUE, FALSE)

\* QueryWrapper.clear()
clear(wr) ==
  [wr EXCEPT !.nodes = EmptyDict, !.edges = EmptyDict, !.executed = FALSE]

\* QueryWrapper.__init__(graph, query, init_nodes, execute, executed, edges)
init(st, query, init_nodes, exec, executed, edges) ==
  LET w0 == [query |-> query, nodes |-> init_nodes, edges |-> EmptyDict,
             executed |-> executed, edge_executed |-> FALSE]
  IN IF exec THEN execute(w0, st, edges, FALSE) ELSE Ret(w0, 0, 0)

\* QueryWrapper.empty_query(graph)
empty_query == init([V |-> {}, E |-> {}], QNone, EmptyDict, FALSE, TRUE, FALSE).w

\* QueryWrapper.node_rids: executes an unexecuted wrapper, then lists the keys
node_rids(wr, st) ==
  LET r == IF wr.executed THEN Ret(wr, 0, 0) ELSE execute(wr, st, FALSE, FALSE)
  IN [w |-> r.w, nr |-> r.nr, ne |-> r.ne, rids |-> DOMAIN r.w.nodes]

Null == [k |-> "null"]

(***************************************************************************)
(* Specification SpecQW: one wrapper and a store that other clients        *)
(* change between the wrapper's operations.                                *)
(***************************************************************************)
MaxReads == 2

QWVerts == {"n1", "n2", "ds"}
QWEdges == {"e1", "e4"}
QWQueries == {QClass("BioNode"),
              QOp("|", QClass("Neuron"), QClass("Synapse")),
              QOp("-", QClass("BioNode"), QRids({"n2"}))}

Val0 == [v \in Vertices |-> 0]

\* the operation just performed, its arguments and the store reads it issued
Op(name, edges, force, cls, r) ==
  [op |-> name, edges |-> edges, force |-> force, cls |-> cls,
   nr |-> r.nr, ne |-> r.ne]

\* reads since the last clear() or forced execution: node-expression
\* evaluations and edge reads
Count(rd, r) ==
  [ev |-> rd.ev + (IF r.nr > 0 THEN 1 ELSE 0), er |-> rd.er + r.ne]

InitQW ==
  /\ store \in {[V |-> {"n1", "n2"}, E |-> {"e1"}, val |-> Val0],
                [V |-> {"n1", "n2"}, E |-> {"e1", "e4"}, val |-> Val0]}
  /\ \E q \in QWQueries, exec \in BOOLEAN, edges \in BOOLEAN :
       LET r == init(store, q, EmptyDict, exec, FALSE, edges)
       IN /\ w = r.w
          /\ last = Op("init", edges, FALSE, "", r)
          /\ reads = Count([ev |-> 0, er |-> 0], r)
  /\ A = Null /\ B = Null /\ C = Null /\ R = Null

Execute ==
  \E edges \in BOOLEAN, force \in BOOLEAN :
    LET r == execute(w, store, edges, force)
        rd == Count(IF force THEN [ev |-> 0, er |-> 0] ELSE reads, r)
    IN /\ rd.ev <= MaxReads /\ rd.er <= MaxReads
       /\ w' = r.w
       /\ last' = Op("execute", edges, force, "", r)
       /\ reads' = rd
       /\ UNCHANGED <<store, A, B, C, R>>

ExecuteEdges ==
  \E edge_class \in {"", "SendsTo"} :
    LET r == execute_edges(w, store, edge_class)
        rd == Count(reads, r)
    IN /\ rd.ev <= MaxReads /\ rd.er <= MaxReads
       /\ w' = r.w
       /\ last' = Op("execute_edges", TRUE, FALSE, edge_class, r)
       /\ reads' = rd
       /\ UNCHANGED <<store, A, B, C, R>>

Clear ==
  /\ w' = clear(w)
  /\ last' = Op("clear", FALSE, FALSE, "", Ret(w, 0, 0))
  /\ reads' = [ev |-> 0, er |-> 0]
  /\ UNCHANGED <<store, A, B, C, R>>

\* another client of the store creates or deletes a vertex or an edge, or
\* updates a vertex attribute
StoreChange ==
  /\ \/ \E v \in QWVerts \ store.V : store' = [store EXCEPT !.V = @ \cup {v}]
     \/ \E v \in QWVerts \cap store.V :
          store' = [V |-> store.V \ {v},
                    E |-> {x \in store.E : EdgeDef[x].out # v /\ EdgeDef[x].in # v},
                    val |-> [store.val EXCEPT ![v] = 0]]
     \/ \E x \in QWEdges \ store.E :
          /\ EdgeDef[x].out \in store.V /\ EdgeDef[x].in \in store.V
          /\ store' = [store EXCEPT !.E = @ \cup {x}]
     \/ \E x \in QWEdges \cap store.E : store' = [store EXCEPT !.E = @ \ {x}]
     \/ /\ "n2" \in store.V
        /\ store' = [store EXCEPT !.val["n2"] = 1 - @]
  /\ last' = Op("store", FALSE, FALSE, "", Ret(w, 0, 0))
  /\ UNCHANGED <<w, reads, A, B, C, R>>

NextQW == Execute \/ ExecuteEdges \/ Clear \/ StoreChange

SpecQW == InitQW /\ [][NextQW]_vars

(***************************************************************************)
(* Properties of SpecQW.                                                   *)
(***************************************************************************)
\* what a fresh edge induction over the node cache of wr returns now
FreshEdges(wr, st, cls) ==
  records_to_dict(execute_query(st, edge_query_from_node_rids(DOMAIN wr.nodes, cls)))

\* the induced edge set of vertex set S: store edges with both endpoints in S
InducedEdges(st, S, cls) ==
  {x \in st.E : /\ EdgeDef[x].out \in S /\ EdgeDef[x].in \in S
                /\ cls \in {"", EdgeDef[x].cls}}

NonForcedCall(o) == o.op \in {"execute", "execute_edges"} /\ ~o.force

\* C1: in a run of non-forced execute / execute_edges calls (since construction,
\* the last clear() or the last forced execution) the node expression is
\* evaluated at most once and the edge query is sent at most once; a
\* non-forced call for a flag that is already set sends nothing to the store
\* for it and leaves that cache unchanged; requesting edges once the nodes
\* are executed sends the edge query only.
C1_ExecuteIdempotent ==
  /\ [](reads.ev <= 1 /\ reads.er <= 1)
  /\ [][NonForcedCall(last') =>
          /\ w.executed => (last'.nr = 0 /\ w'.nodes = w.nodes /\ w'.executed)
          /\ w.edge_executed =>
               (last'.ne = 0 /\ w'.edges = w.edges /\ w'.edge_executed)
          /\ (w.executed /\ ~w.edge_executed /\ last'.edges) =>
               (last'.nr = 0 /\ last'.ne = 1 /\ w'.edge_executed)]_vars

\* C1 witness: both caches were populated once and a later non-forced call
\* requesting edges reached the store with nothing
C1_Witness ==
  /\ NonForcedCall(last) /\ last.edges /\ last.nr = 0 /\ last.ne = 0
  /\ w.executed /\ w.edge_executed
  /\ reads.ev = 1 /\ reads.er = 1
  /\ DOMAIN w.nodes # {} /\ DOMAIN w.edges # {}

\* C2: after execute(edges=True, force=True) on a wrapper whose nodes and
\* edges were already executed, the node cache is the expression's value on
\* the current store and the edge cache is the edge induction of that new
\* node cache.
C2_ForceReplacesCaches ==
  [][(last'.op = "execute" /\ last'.force /\ last'.edges
        /\ w.executed /\ w.edge_executed) =>
       /\ w'.nodes = e(store', w'.query)
       /\ w'.edges = FreshEdges(w', store', "")]_vars

\* C3: after clear() both caches are empty and both flags are unset, and
\* the next execute(edges=True) repopulates the node cache and the edge
\* cache from the store.
C3_ClearInvalidatesAll ==
  [][/\ last'.op = "clear" =>
          /\ DOMAIN w'.nodes = {} /\ DOMAIN w'.edges = {}
          /\ ~w'.executed /\ ~w'.edge_executed
     /\ (last.op = "clear" /\ last'.op = "execute" /\ last'.edges) =>
          /\ w'.nodes = e(store', w'.query)
          /\ w'.edges = FreshEdges(w', store', "")]_vars

\* C7: whenever execute(edges=True) or execute_edges() reads the edges, the
\* edge cache is exactly the induced edge set of the node cache (of the
\* requested edge class, when one is given).
C7_EdgeInduction ==
  [][(last'.op \in {"init", "execute", "execute_edges"} /\ last'.ne = 1) =>
       w'.edges = [x \in InducedEdges(store', DOMAIN w'.nodes, last'.cls) |->
                     EdgeRec(x)]]_vars

(***************************************************************************)
(* Combinators and equality.  Each binary combinator returns the new       *)
(* wrapper together with the operands as it leaves them and the store      *)
(* reads it issued.                                                        *)
(***************************************************************************)
BinRet(r, a, b) == [res |-> r.w, a |-> a, b |-> b, nr |-> r.nr, ne |-> r.ne]

\* union that first executes operands that are not executed yet
or_executing(a, b, st) ==
  LET ra == node_rids(a, st)
      rb == node_rids(b, st)
      r == init(st, QOp("|", a.query, b.query), dict_union(ra.w.nodes, rb.w.nodes),
                TRUE, TRUE, FALSE)
  IN [res |-> r.w, a |-> ra.w, b |-> rb.w,
      nr |-> ra.nr + rb.nr + r.nr, ne |-> ra.ne + rb.ne + r.ne]

\* QueryWrapper.__or__ (also __add__)
or_(a, b, st) ==
  BinRet(init(st, QOp("|", a.query, b.query), dict_union(a.nodes, b.nodes),
              TRUE, TRUE, FALSE), a, b)

\* QueryWrapper.__sub__
sub_(a, b, st) ==
  BinRet(init(st, QOp("-", a.query, b.query), dict_difference(a.nodes, b.nodes),
              TRUE, TRUE, FALSE), a, b)

\* QueryWrapper.__and__ (also __mul__)
and_(a, b, st) ==
  BinRet(init(st, QOp("&", a.query, b.query), dict_intersection(a.nodes, b.nodes),
              TRUE, TRUE, FALSE), a, b)

\* QueryWrapper.__xor__
xor_(a, b, st) ==
  BinRet(init(st, QOp("^", a.query, b.query),
              dict_symmetric_difference(a.nodes, b.nodes), TRUE, TRUE, FALSE), a, b)

\* Python's dispatch of the binary operator symbols to the methods
binop(sym, a, b, st) ==
  CASE sym \in {"|", "+"} -> or_(a, b, st)
    [] sym = "-" -> sub_(a, b, st)
    [] sym \in {"&", "*"} -> and_(a, b, st)
    [] sym = "^" -> xor_(a, b, st)

\* QueryWrapper.__eq__
eq(x, y) ==
  IF ~x.executed THEN FALSE
  ELSE IF DOMAIN x.nodes = DOMAIN y.nodes THEN TRUE ELSE FALSE

(***************************************************************************)
(* Specification SpecAlg: three operand wrappers A, B, C over one store;   *)
(* the caller executes operands, combines A and B into R, compares A and   *)
(* B, and evaluates the set-algebra expressions over A, B, C.              *)
(***************************************************************************)
BinSyms == {"+", "|", "-", "&", "*", "^"}

AlgStore == [V |-> {"n1", "n2", "n3"}, E |-> {"e1", "e5"},
             val |-> [Val0 EXCEPT !["n2"] = 1]]

AlgQueries == {QClass("Neuron"), QClass("Synapse"), QRids({"n1", "n2"}), QClass("DataSource")}

\* records handed to the constructor as init_nodes (fetched earlier, when
\* the attribute of n2 was still 0)
AlgInitNodes == {records_to_dict({NodeRec([val |-> Val0], v) : v \in S}) :
                   S \in {{"n2"}, {"n2", "n3"}}}

\* the wrappers a caller can hold: built from a query and executed or not,
\* built pre-executed from known records, or the empty query
AlgOperands ==
  {init(AlgStore, q, EmptyDict, x, FALSE, FALSE).w : q \in AlgQueries, x \in BOOLEAN}
  \cup {init(AlgStore, QRids(DOMAIN n), n, FALSE, TRUE, FALSE).w : n \in AlgInitNodes}
  \cup {empty_query}

InitAlg ==
  /\ store = AlgStore
  /\ A \in AlgOperands /\ B \in AlgOperands /\ C \in AlgOperands
  /\ R = Null
  /\ last = [op |-> "init"]
  /\ w = Null /\ reads = Null

\* the caller executes operand A or B
ExecuteOperand ==
  /\ \/ ~A.executed /\ A' = execute(A, store, FALSE, FALSE).w /\ B' = B
     \/ ~B.executed /\ B' = execute(B, store, FALSE, FALSE).w /\ A' = A
  /\ last' = [op |-> "execute"]
  /\ UNCHANGED <<store, w, reads, C, R>>

\* R = A <sym> B
Combine ==
  \E sym \in BinSyms :
    LET r == binop(sym, A, B, store)
    IN /\ R' = r.res /\ A' = r.a /\ B' = r.b
       /\ last' = [op |-> "combine", sym |-> sym, nr |-> r.nr, ne |-> r.ne]
       /\ UNCHANGED <<store, w, reads, C>>

\* A == B and B == A
Eq ==
  /\ last' = [op |-> "eq", ab |-> eq(A, B), ba |-> eq(B, A)]
  /\ UNCHANGED <<store, w, reads, A, B, C, R>>

\* the caller evaluates both sides of each set-algebra law
Laws ==
  /\ A.executed /\ B.executed /\ C.executed
  /\ last' = [op |-> "laws",
              comm |-> eq(or_(A, B, store).res, or_(B, A, store).res),
              assoc |-> eq(or_(or_(A, B, store).res, C, store).res,
                           or_(A, or_(B, C, store).res, store).res),
              idem |-> eq(and_(A, A, store).res, A),
              subself |-> sub_(A, A, store).res,
              xorself |-> xor_(A, A, store).res,
              meet |-> and_(A, B, store).res]
  /\ UNCHANGED <<store, w, reads, A, B, C, R>>

NextAlg == ExecuteOperand \/ Combine \/ Eq \/ Laws

SpecAlg == InitAlg /\ [][NextAlg]_vars

\* C4: X == Y is true exactly when both operands are executed and their
\* node-identifier sets are equal, whichever operand is on the left.
C4_EqualityIff ==
  last.op = "eq" =>
    LET both == A.executed /\ B.executed /\ DOMAIN A.nodes = DOMAIN B.nodes
    IN (last.ab <=> both) /\ (last.ba <=> both)

\* C5: for executed A, B, C: A+B == B+A, (A+B)+C == A+(B+C), A&A == A,
\* A-A and A^A have an empty node cache, and the identifiers of A&B are
\* among those of A and among those of B.
C5_SetAlgebraLaws ==
  last.op = "laws" =>
    /\ last.comm /\ last.assoc /\ last.idem
    /\ DOMAIN last.subself.nodes = {}
    /\ DOMAIN last.xorself.nodes = {}
    /\ DOMAIN last.meet.nodes \subseteq DOMAIN A.nodes
    /\ DOMAIN last.meet.nodes \subseteq DOMAIN B.nodes

\* C5 witness: the laws were evaluated on overlapping, different, non-empty
\* operands that hold different records for a common identifier
C5_Witness ==
  /\ last.op = "laws"
  /\ DOMAIN A.nodes # DOMAIN B.nodes /\ DOMAIN B.nodes # DOMAIN C.nodes
  /\ DOMAIN last.meet.nodes # {}
  /\ DOMAIN A.nodes \ DOMAIN B.nodes # {} /\ DOMAIN B.nodes \ DOMAIN A.nodes # {}
  /\ \E k \in DOMAIN last.meet.nodes : A.nodes[k] # B.nodes[k]

\* the set operation a binary operator symbol stands for
SetOpOf(sym) ==
  CASE sym \in {"|", "+"} -> "union"
    [] sym \in {"&", "*"} -> "intersect"
    [] sym = "-" -> "difference"
    [] sym = "^" -> "symmetric_difference"

\* C6: a binary combinator sends nothing to the store, leaves both operands
\* (expression, caches, flags) as they were - an unexecuted operand stays
\* unexecuted - and returns a wrapper whose expression is the new operator
\* node (op, A.expr, B.expr).
C6_CombinatorFrame ==
  [][last'.op = "combine" =>
       /\ last'.nr = 0 /\ last'.ne = 0
       /\ A' = A /\ B' = B
       /\ R'.query.k = "op"
       /\ SetOpOf(R'.query.op) = SetOpOf(last'.sym)
       /\ R'.query.l = A.query /\ R'.query.r = B.query]_vars

\* C6 witness: a combinator was applied to an unexecuted operand
C6_Witness ==
  /\ last.op = "combine" /\ last.nr = 0
  /\ ~A.executed /\ B.executed /\ DOMAIN B.nodes # {}
  /\ R.executed /\ R.query = QOp("|", A.query, B.query)

\* C24: for a wrapper R built by a combinator from executed operands over a
\* fixed store, the node-identifier set the combinator put in R's cache is
\* the set that execute(force=True) obtains by evaluating R's expression
\* tree post-order (a leaf is a store read, an operator node combines the
\* maps of its children).
C24_EagerEqualsForced ==
  (last.op = "combine" /\ A.executed /\ B.executed) =>
    DOMAIN R.nodes = DOMAIN execute(R, store, FALSE, TRUE).w.nodes

\* C24 witness: a difference of overlapping, different, non-empty executed
\* operands, re-evaluated with one store read per leaf
C24_Witness ==
  /\ last.op = "combine" /\ last.sym = "-"
  /\ A.executed /\ B.executed
  /\ DOMAIN A.nodes \cap DOMAIN B.nodes # {}
  /\ DOMAIN R.nodes # {} /\ DOMAIN R.nodes # DOMAIN A.nodes
  /\ execute(R, store, FALSE, TRUE).nr = 2
  /\ DOMAIN execute(R, store, FALSE, TRUE).w.nodes = DOMAIN R.nodes

(***************************************************************************)
(* In-place combinators.  Each changes the expression and the node cache   *)
(* of the wrapper it is called on and nothing else; the operators give the *)
(* wrapper object as the method leaves it (the methods return None).       *)
(***************************************************************************)
\* QueryWrapper.__ior__ (also __iadd__)
ior_(wr, o) ==
  [wr EXCEPT !.query = QOp("|", wr.query, o.query),
             !.nodes = dict_union(wr.nodes, o.nodes)]

\* QueryWrapper.__isub__
isub_(wr, o) ==
  [wr EXCEPT !.query = QOp("-", wr.query, o.query),
             !.nodes = dict_difference(wr.nodes, o.nodes)]

\* QueryWrapper.__iand__
iand_(wr, o) ==
  [wr EXCEPT !.query = QOp("&", wr.query, o.query),
             !.nodes = dict_intersection(wr.nodes, o.nodes)]

\* QueryWrapper.__ixor__
ixor_(wr, o) ==
  [wr EXCEPT !.query = QOp("^", wr.query, o.query),
             !.nodes = dict_symmetric_difference(wr.nodes, o.nodes)]

\* Python's dispatch of the augmented assignments to the methods
iop(sym, wr, o) ==
  CASE sym \in {"|=", "+="} -> ior_(wr, o)
    [] sym = "-=" -> isub_(wr, o)
    [] sym = "&=" -> iand_(wr, o)
    [] sym = "^=" -> ixor_(wr, o)

(***************************************************************************)
(* Specification SpecInPlace: one wrapper w over an unchanging store; the  *)
(* caller executes it, reads its edges, clears it and combines it in place *)
(* with an operand A.  C counts the in-place combinations.                 *)
(***************************************************************************)
MaxInPlace == 2

InPlaceSyms == {"|=", "+=", "-=", "&=", "^="}

InPlaceOperands(st) ==
  {init(st, q, EmptyDict, x, FALSE, FALSE).w :
     q \in {QRids({"n2"}), QClass("Neuron"), QClass("BioNode")}, x \in BOOLEAN}

InitInPlace ==
  /\ store \in {[V |-> {"n1", "n2"}, E |-> {"e1"}, val |-> Val0],
                [V |-> {"n1", "n2", "n3"}, E |-> {"e1", "e2", "e4"}, val |-> Val0]}
  /\ \E q \in QWQueries, exec \in BOOLEAN, edges \in BOOLEAN :
       LET r == init(store, q, EmptyDict, exec, FALSE, edges)
       IN /\ w = r.w
          /\ last = Op("init", edges, FALSE, "", r)
          /\ reads = Count([ev |-> 0, er |-> 0], r)
  /\ A \in InPlaceOperands(store)
  /\ C = 0
  /\ B = Null /\ R = Null

\* w <sym> A
InPlace ==
  \E sym \in InPlaceSyms :
    /\ C < MaxInPlace
    /\ w' = iop(sym, w, A)
    /\ C' = C + 1
    /\ last' = Op(sym, FALSE, FALSE, "", Ret(w, 0, 0))
    /\ UNCHANGED <<store, reads, A, B, R>>

NextInPlace == Execute \/ ExecuteEdges \/ Clear \/ InPlace

SpecInPlace == InitInPlace /\ [][NextInPlace]_vars

\* C29: in every state the wrapper reaches by execute, execute_edges,
\* clear, forced re-execution and the in-place combinators, every record of
\* the edge cache has both endpoints in the node cache.
C29_EdgeCacheNeverStale ==
  \A x \in DOMAIN w.edges :
    /\ w.edges[x].out \in DOMAIN w.nodes
    /\ w.edges[x].in \in DOMAIN w.nodes

(***************************************************************************)
(* Traversal generators.  Each returns the new wrapper, the source wrapper *)
(* as it leaves it (node_rids executes an unexecuted source) and the store *)
(* reads issued.                                                           *)
(***************************************************************************)
TravRet(r, src) ==
  [res |-> r.w, src |-> src.w, nr |-> src.nr + r.nr, ne |-> src.ne + r.ne]

\* _own with the hop list not multiplied by `levels`
own_one_level(wr, st, direction, levels, kw) ==
  LET src == node_rids(wr, st)
  IN IF src.rids = {}
     THEN TravRet(Ret(empty_query, 0, 0), src)
     ELSE TravRet(init(st, QOwn(direction, 1, src.rids, kwargs_(kw).classes),
                       EmptyDict, TRUE, FALSE, FALSE), src)

\* QueryWrapper._own(direction, levels, kwargs); owns = 'out', owned_by = 'in'
own(wr, st, direction, levels, kw) ==
  LET src == node_rids(wr, st)
  IN IF src.rids = {}
     THEN TravRet(Ret(empty_query, 0, 0), src)
     ELSE TravRet(init(st, QOwn(direction, levels, src.rids, kwargs_(kw).classes),
                       EmptyDict, TRUE, FALSE, FALSE), src)

\* a default depth range that leaves out $q0
depth_range_from_1(kwargs, n) ==
  [lo |-> IF "min_depth" \in DOMAIN kwargs THEN kwargs["min_depth"] ELSE 1,
   hi |-> IF "max_depth" \in DOMAIN kwargs THEN kwargs["max_depth"] ELSE n + 1]

\* _gen_traversal: min_depth / max_depth from kwargs or their defaults,
\* n = len(args)
depth_range(kwargs, n) ==
  [lo |-> IF "min_depth" \in DOMAIN kwargs THEN kwargs["min_depth"] ELSE 0,
   hi |-> IF "max_depth" \in DOMAIN kwargs THEN kwargs["max_depth"] ELSE n + 1]

\* QueryWrapper._gen_traversal(direction, args, kwargs)
gen_traversal(wr, st, direction, args, kwargs) ==
  LET src == node_rids(wr, st)
      d == depth_range(kwargs, Len(args))
      stages == [t \in 1..Len(args) |-> StageQuery(direction, args[t])]
  IN IF src.rids = {}
     THEN TravRet(Ret(empty_query, 0, 0), src)
     ELSE TravRet(init(st, QTrav(src.rids, stages,
                                 PySliceIdx(Len(args) + 1, d.lo, d.hi)),
                       EmptyDict, TRUE, FALSE, FALSE), src)

(***************************************************************************)
(* Specification SpecTrav: a source wrapper over a fixed store; the caller *)
(* derives one new wrapper R by owns / owned_by / gen_traversal_in / _out. *)
(***************************************************************************)
MaxLevels == 3
MaxStages == 2
MaxDepthArg == 3

TravStores ==
  {[V |-> {"n1", "n2", "n3"}, E |-> S \cup O, val |-> Val0] :
     S \in SUBSET {"e1", "e2", "e3"}, O \in {{"e4", "e5"}, {"e4", "e5", "e6"}}}

\* source wrappers: from_rids / a class query, executed at construction or not
TravSources ==
  {[q |-> QRids({"n1"}), x |-> TRUE], [q |-> QRids({"n1"}), x |-> FALSE],
   [q |-> QRids({"n1", "n2"}), x |-> TRUE], [q |-> QClass("DataSource"), x |-> TRUE]}

\* keyword filters given to owns / owned_by
OwnKwargs == {NoFilter,
              [NoFilter EXCEPT !.cls = {"Neuron"}],
              [NoFilter EXCEPT !.instanceof = "BioNode"],
              [NoFilter EXCEPT !.attrs = {[key |-> "N", op |-> ">", bound |-> 0]}]}

\* traversal stages: [rel], [rel, cls], [rel, cls, 'instanceof', {N: ('>', 0)}]
StageArgs == {[rel |-> "SendsTo", args |-> NoFilter],
              [rel |-> "SendsTo", args |-> [NoFilter EXCEPT !.cls = {"Neuron"}]],
              [rel |-> "SendsTo",
               args |-> [cls |-> {}, instanceof |-> "BioNode",
                         attrs |-> {[key |-> "N", op |-> ">", bound |-> 0]}]]}

ArgLists == UNION {[1..n -> StageArgs] : n \in 1..MaxStages}

\* keyword dictionaries holding min_depth and/or max_depth, or neither
DepthKwargs ==
  {[k \in D |-> IF k = "min_depth" THEN lo ELSE hi] :
     D \in SUBSET {"min_depth", "max_depth"},
     lo \in 0..(MaxDepthArg - 1), hi \in 1..MaxDepthArg}

InitTrav ==
  /\ store \in TravStores
  /\ \E s \in TravSources : w = init(store, s.q, EmptyDict, s.x, FALSE, FALSE).w
  /\ R = Null
  /\ last = [op |-> "init"]
  /\ A = Null /\ B = Null /\ C = Null /\ reads = Null

\* R = w.owns(levels, **kw) or w.owned_by(levels, **kw)
Own ==
  \E direction \in {"out", "in"}, levels \in 1..MaxLevels, kw \in OwnKwargs :
    LET r == own(w, store, direction, levels, kw)
    IN /\ R = Null
       /\ R' = r.res /\ w' = r.src
       /\ last' = [op |-> "own", dir |-> direction, levels |-> levels, kw |-> kw,
                   nr |-> r.nr, src |-> DOMAIN r.src.nodes]
       /\ UNCHANGED <<store, reads, A, B, C>>

\* R = w.gen_traversal_out(*args, **kwargs) or w.gen_traversal_in(...)
GenTraversal ==
  \E direction \in {"out", "in"}, args \in ArgLists, kwargs \in DepthKwargs :
    LET r == gen_traversal(w, store, direction, args, kwargs)
    IN /\ R = Null
       /\ R' = r.res /\ w' = r.src
       /\ last' = [op |-> "trav", dir |-> direction, args |-> args,
                   kwargs |-> kwargs, nr |-> r.nr, src |-> DOMAIN r.src.nodes]
       /\ UNCHANGED <<store, reads, A, B, C>>

NextTrav == Own \/ GenTraversal

SpecTrav == InitTrav /\ [][NextTrav]_vars

(***************************************************************************)
(* Properties of SpecTrav.                                                 *)
(***************************************************************************)
\* v is the end of a walk of exactly n edges of class rel that starts in S
\* and follows the edges outward ("out") or inward ("in")
RECURSIVE WalkEnd(_, _, _, _, _, _)
WalkEnd(st, direction, rel, S, v, n) ==
  IF n = 0 THEN v \in S
  ELSE \E x \in st.E :
         /\ EdgeDef[x].cls = rel
         /\ IF direction = "out"
            THEN EdgeDef[x].in = v /\ WalkEnd(st, direction, rel, S, EdgeDef[x].out, n - 1)
            ELSE EdgeDef[x].out = v /\ WalkEnd(st, direction, rel, S, EdgeDef[x].in, n - 1)

\* the node-type allow-list of a keyword filter
TypeOK(kw, v) ==
  /\ kw.cls # {} => Class[v] \in kw.cls
  /\ kw.instanceof # "" => IsInstance(v, kw.instanceof)

\* the attribute predicates of a keyword filter
PredOK(kw, v) ==
  \A p \in kw.attrs :
    /\ v \in HasN
    /\ CASE p.op = ">" -> NAttr[v] > p.bound
        [] p.op = "<" -> NAttr[v] < p.bound
        [] p.op = "=" -> NAttr[v] = p.bound
        [] p.op = ">=" -> NAttr[v] >= p.bound
        [] p.op = "<=" -> NAttr[v] <= p.bound

\* C8: owns(levels=n) / owned_by(levels=n) from a non-empty cached set
\* returns exactly the nodes (of the allowed types) at the end of a walk of
\* exactly n outward / inward ownership edges from the cached set; from an
\* empty cached set it returns an executed empty wrapper without a read.
C8_OwnsExactLevels ==
  (last.op = "own" /\ last.kw.attrs = {}) =>
    /\ R.executed
    /\ last.src # {} =>
         DOMAIN R.nodes =
           {v \in store.V : /\ WalkEnd(store, last.dir, "Owns", last.src, v, last.levels)
                            /\ TypeOK(last.kw, v)}
    /\ last.src = {} => (DOMAIN R.nodes = {} /\ R.query = QNone)

\* C8 witness: owns(levels=2) found a node two hops away and left out a
\* node that is only one hop away
C8_Witness ==
  /\ last.op = "own" /\ last.dir = "out" /\ last.levels = 2 /\ last.kw = NoFilter
  /\ last.src = {"n1"}
  /\ "e4" \in store.E /\ "e6" \notin store.E
  /\ DOMAIN R.nodes = {"n3"}

\* C27: owns(levels, attr=value) / owned_by(levels, attr=value) return only
\* nodes that satisfy the attribute predicates: a node at the requested hop
\* distance that violates a predicate is not in the result.
C27_OwnsHonourAttrs ==
  (last.op = "own" /\ last.kw.attrs # {}) =>
    \A v \in DOMAIN R.nodes : PredOK(last.kw, v)

\* the result set of depth t: stage t applied to the result set of depth
\* t - 1, depth 0 being the cached set itself
RECURSIVE DepthSet(_, _, _, _, _)
DepthSet(st, direction, args, S, t) ==
  IF t = 0 THEN S \cap st.V
  ELSE LET prev == DepthSet(st, direction, args, S, t - 1)
       IN {v \in st.V : /\ WalkEnd(st, direction, args[t].rel, prev, v, 1)
                        /\ TypeOK(args[t].args, v)
                        /\ PredOK(args[t].args, v)}

NoDepthGiven(o) ==
  "min_depth" \notin DOMAIN o.kwargs /\ "max_depth" \notin DOMAIN o.kwargs

\* C9 as stated: without min_depth and max_depth the result is the union of
\* the result sets of depths 1..N, the depth-0 set left out.
C9_DefaultExcludesIdentity ==
  (last.op = "trav" /\ NoDepthGiven(last) /\ last.src # {}) =>
    DOMAIN R.nodes =
      UNION {DepthSet(store, last.dir, last.args, last.src, t) :
               t \in 1..Len(last.args)}

\* C9 amended: without min_depth and max_depth the result is the union of
\* the result sets of depths 0..N: every stage result and the starting nodes.
C9_DefaultIncludesIdentity ==
  (last.op = "trav" /\ NoDepthGiven(last) /\ last.src # {}) =>
    /\ DOMAIN R.nodes =
         UNION {DepthSet(store, last.dir, last.args, last.src, t) :
                  t \in 0..Len(last.args)}
    /\ last.src \subseteq DOMAIN R.nodes

\* C9 witness: a default-depth traversal returned a starting node that no
\* stage reaches
C9_Witness ==
  /\ last.op = "trav" /\ NoDepthGiven(last) /\ last.dir = "out"
  /\ last.src = {"n1"} /\ "e3" \notin store.E /\ "e1" \in store.E
  /\ {"n1", "n2"} \subseteq DOMAIN R.nodes

\* the store holds exactly the chain n1 -> n2 -> n3 of SendsTo edges
Chain(st) == {x \in st.E : EdgeDef[x].cls = "SendsTo"} = {"e1", "e2"}

Plain == [rel |-> "SendsTo", args |-> NoFilter]

\* the depths min_depth..max_depth select: min_depth <= t < max_depth,
\* from 0 and up to N when not given
SelectedDepths(o) ==
  {t \in 0..Len(o.args) :
     /\ "min_depth" \in DOMAIN o.kwargs => o.kwargs["min_depth"] <= t
     /\ "max_depth" \in DOMAIN o.kwargs => t < o.kwargs["max_depth"]}

\* C10: on the chain n1 -> n2 -> n3 from {n1}, gen_traversal_out([rel],
\* min_depth=1) returns {n2} and gen_traversal_out([rel],[rel], min_depth=1,
\* max_depth=3) returns {n2, n3}; in general the result is the union of the
\* depth sets selected by min_depth and max_depth, the set of depth t being
\* stage t (with its filters) applied to the set of depth t - 1.
C10_TraversalDepths ==
  (last.op = "trav" /\ last.src # {}) =>
    /\ DOMAIN R.nodes =
         UNION {DepthSet(store, last.dir, last.args, last.src, t) :
                  t \in SelectedDepths(last)}
    /\ (/\ Chain(store) /\ last.src = {"n1"} /\ last.dir = "out"
        /\ "min_depth" \in DOMAIN last.kwargs /\ last.kwargs["min_depth"] = 1) =>
         /\ (last.args = <<Plain>> /\ "max_depth" \notin DOMAIN last.kwargs) =>
              DOMAIN R.nodes = {"n2"}
         /\ (/\ last.args = <<Plain, Plain>>
             /\ "max_depth" \in DOMAIN last.kwargs => last.kwargs["max_depth"] = 3) =>
              DOMAIN R.nodes = {"n2", "n3"}

\* C10 witness: the two-stage traversal of the chain from {n1} with
\* min_depth=1 and max_depth=3 returned {n2, n3}
C10_Witness ==
  /\ last.op = "trav" /\ Chain(store) /\ last.src = {"n1"} /\ last.dir = "out"
  /\ last.args = <<Plain, Plain>>
  /\ DOMAIN last.kwargs = {"min_depth", "max_depth"}
  /\ last.kwargs["min_depth"] = 1 /\ last.kwargs["max_depth"] = 3
  /\ DOMAIN R.nodes = {"n2", "n3"}

(***************************************************************************)
(* The diff engine (src/neuroarch/diff.py).  A DataFrame is its index in   *)
(* row order (`ids`), its column set (`cols`) and, by position, the cells  *)
(* of each row (`vals`).  Cell values and identifiers are strings; Python's *)
(* None is the string "None".                                              *)
(***************************************************************************)
RowIds == <<"w", "x", "z">>

ColumnSets == {{"a"}, {"a", "b"}}

Values == {"1", "2"}

None == "None"

SeqRange(s) == {s[i] : i \in DOMAIN s}

DataFrame(ids, cols, vals) == [ids |-> ids, cols |-> cols, vals |-> vals]

\* pandas: len(df.index) == len(set(df.index))
index_is_unique(df) == Cardinality(SeqRange(df.ids)) = Len(df.ids)

\* pandas: id in df.index
in_index(df, id) == id \in SeqRange(df.ids)

\* pandas: df.ix[id].to_dict(), for an id of the (unique) index
ix(df, id) == df.vals[CHOOSE i \in DOMAIN df.ids : df.ids[i] = id]

\* the rows at the positions `keep`, in their order
take_rows(df, keep) ==
  LET pos == SelectSeq([i \in DOMAIN df.ids |-> i], LAMBDA i : i \in keep)
  IN DataFrame([k \in DOMAIN pos |-> df.ids[pos[k]]], df.cols,
               [k \in DOMAIN pos |-> df.vals[pos[k]]])

\* node tables: every row set over RowIds, every cell assignment
NodeTables ==
  UNION { UNION { { take_rows(DataFrame(RowIds, K, [i \in DOMAIN RowIds |-> f[RowIds[i]]]),
                              {i \in DOMAIN RowIds : RowIds[i] \in S})
                    : f \in [SeqRange(RowIds) -> [K -> Values]] }
                  : S \in SUBSET SeqRange(RowIds) }
          : K \in ColumnSets }

\* edge tables as get_as() renders them: a default index and the reserved
\* columns out / class / in; two rows may describe the same edge
MaxEdgeRows == 2

EndPoints == {"#1:0", "#1:1"}

EdgeClasses == {"SendsTo"}

EdgeRows == [out : EndPoints, class : EdgeClasses, in : EndPoints]

RawLabels == <<"r1", "r2", "r3">>

EdgeTables ==
  UNION { { DataFrame(SubSeq(RawLabels, 1, n), {"out", "class", "in"}, s)
            : s \in [1..n -> EdgeRows] }
          : n \in 0..MaxEdgeRows }

\* old['out'].str.cat(old['class'], sep=' ').str.cat(old['in'], sep=' ')
edge_key(row) == row["out"] \o " " \o row["class"] \o " " \o row["in"]

\* df.index = <the composite key of each row>
set_edge_index(df) ==
  DataFrame([i \in DOMAIN df.ids |-> edge_key(df.vals[i])], df.cols, df.vals)

\* pandas: df.drop_duplicates() keeps the first of the rows with equal cells
drop_duplicates(df) ==
  take_rows(df, {i \in DOMAIN df.ids :
                   \A j \in DOMAIN df.ids : j < i => df.vals[j] # df.vals[i]})

\* the row identifiers of the tables of a synchronization: store
\* identifiers and a logical identifier
SaveRowIds == <<"#1:0", "#1:1", "v1">>

\* every identifier a table of the model can carry
IdUniverse ==
  SeqRange(RowIds) \cup SeqRange(SaveRowIds)
  \cup {edge_key(row) : row \in EdgeRows}
  \cup {edge_key(row) : row \in [out : SeqRange(SaveRowIds), class : EdgeClasses,
                                   in : SeqRange(SaveRowIds)]}

(***************************************************************************)
(* daff.Coopy.diff(old, new).data, the highlighter table that take_diff    *)
(* reads.  Columns are aligned by name.  Rows with the same identifier are *)
(* aligned with each other; `al` pairs rows whose identifier changed (the  *)
(* library pairs rows by the cells they share, so pairing is a choice of   *)
(* the library: any partial matching of old-only with new-only rows that   *)
(* agree on some common column).  The table has                            *)
(*   top   "!" when a column was added or removed (a schema row precedes   *)
(*         the header row), "@@" otherwise;                                *)
(*   edit  the schema row: "+++" / "---" / "" per column;                  *)
(*   rows  per row the action `op`, the identifier cell `id` (rendered     *)
(*         "old->new" for a paired row) and `arrow`, the columns whose     *)
(*         cell is rendered "old->new".                                    *)
(***************************************************************************)
Pairings(old, new) ==
  LET oldOnly == SeqRange(old.ids) \ SeqRange(new.ids)
      newOnly == SeqRange(new.ids) \ SeqRange(old.ids)
  IN { f \in UNION { [D -> newOnly] : D \in SUBSET oldOnly } :
         /\ \A x, y \in DOMAIN f : f[x] = f[y] => x = y
         /\ \A x \in DOMAIN f :
              \E col \in old.cols \cap new.cols : ix(old, x)[col] = ix(new, f[x])[col] }

daff_row(old, new, l, r) ==
  LET arrow == {col \in old.cols \cap new.cols : ix(old, l)[col] # ix(new, r)[col]}
  IN [op |-> IF l # r \/ arrow # {} THEN "->"
             ELSE IF new.cols \ old.cols # {} THEN "+"
             ELSE "",
      id |-> IF l = r THEN l ELSE l \o "->" \o r,
      arrow |-> arrow]

daff(old, new, al) ==
  LET paired == {al[x] : x \in DOMAIN al}
      old_rows == [i \in DOMAIN old.ids |->
                     LET l == old.ids[i]
                     IN IF in_index(new, l) THEN daff_row(old, new, l, l)
                        ELSE IF l \in DOMAIN al THEN daff_row(old, new, l, al[l])
                        ELSE [op |-> "---", id |-> l, arrow |-> {}]]
      added == SelectSeq(new.ids, LAMBDA r : ~in_index(old, r) /\ r \notin paired)
      new_rows == [i \in DOMAIN added |-> [op |-> "+++", id |-> added[i], arrow |-> {}]]
      all == old_rows \o new_rows
      \* unchanged rows are kept as context next to a changed row and are
      \* elided as "..." when no row changed
      quiet == \A i \in DOMAIN all : all[i].op = ""
  IN [top |-> IF old.cols = new.cols THEN "@@" ELSE "!",
      edit |-> [col \in old.cols \cup new.cols |->
                  IF col \notin old.cols THEN "+++"
                  ELSE IF col \notin new.cols THEN "---" ELSE ""],
      rows |-> [i \in DOMAIN all |->
                  IF quiet THEN [op |-> "...", id |-> "...", arrow |-> {}] ELSE all[i]]]

(***************************************************************************)
(* take_diff.  The result is the dict {'mod', 'del', 'add'} or the error   *)
(* the call raises.                                                        *)
(***************************************************************************)
Put(d, k, v) == [x \in DOMAIN d \cup {k} |-> IF x = k THEN v ELSE d[x]]

EmptyChangeSet == [err |-> "", mod |-> EmptyDict, del |-> EmptyDict, add |-> EmptyDict]

\* isinstance(id, str) and op in id
is_renamed_id(id) == \E p \in IdUniverse \X IdUniverse : id = p[1] \o "->" \o p[2]

\* re.search('(.+)%s(.+)$' % op, id).groups()
renamed_ids(id) == CHOOSE p \in IdUniverse \X IdUniverse : id = p[1] \o "->" \o p[2]

\* lines 134-141: with a schema row, every processed row gets a mod entry
\* holding the added columns' new cells and None for the removed columns
column_edits(acc, id, df, new) ==
  LET added == {col \in DOMAIN df.edit : df.edit[col] = "+++"}
      removed == {col \in DOMAIN df.edit : df.edit[col] = "---"}
      entry == IF id \in DOMAIN acc.mod THEN acc.mod[id] ELSE EmptyDict
  IN IF added # {} /\ ~in_index(new, id)
     THEN [acc EXCEPT !.err = "KeyError"]
     ELSE [acc EXCEPT !.mod =
             Put(acc.mod, id,
                 [col \in DOMAIN entry \cup added \cup removed |->
                    IF col \in added THEN ix(new, id)[col]
                    ELSE IF col \in removed THEN None
                    ELSE entry[col]])]

\* lines 112-121 with the paired row recorded as a modification of the old
\* identifier
rename_row_as_mod(acc, id, new) ==
  [acc EXCEPT !.mod = Put(acc.mod, renamed_ids(id)[1], ix(new, renamed_ids(id)[2]))]

\* lines 112-121: a renamed row is a deletion of the old identifier and an
\* addition of the new one
rename_row(acc, id, new) ==
  LET old_id == renamed_ids(id)[1]
      new_id == renamed_ids(id)[2]
  IN [acc EXCEPT !.del = Put(acc.del, old_id, None),
                 !.add = Put(acc.add, new_id, ix(new, new_id))]

\* lines 128-132 storing every cell of the new row
changed_cells_whole_row(entry, row, new) == ix(new, row.id)

\* lines 128-132: without full_replace the mod entry gets the changed cells
changed_cells(entry, row, new) ==
  [col \in DOMAIN entry \cup row.arrow |->
     IF col \in row.arrow THEN ix(new, row.id)[col] ELSE entry[col]]

\* lines 102-141: the branch for the row's action, then the column edits
diff_row_body(acc, row, df, new, full_replace) ==
  LET op == row.op
      id == row.id
      acc1 ==
        IF op = "+++" THEN [acc EXCEPT !.add = Put(acc.add, id, ix(new, id))]
        ELSE IF op = "---" THEN [acc EXCEPT !.del = Put(acc.del, id, None)]
        ELSE IF op = "+" THEN
          IF full_replace
          THEN [acc EXCEPT !.mod = Put(acc.mod, id, ix(new, id))]
          ELSE acc
        ELSE IF op = "->" THEN
          IF is_renamed_id(id) THEN rename_row(acc, id, new)
          ELSE IF full_replace
          THEN [acc EXCEPT !.mod = Put(acc.mod, id, ix(new, id))]
          ELSE LET entry == IF id \in DOMAIN acc.mod THEN acc.mod[id] ELSE EmptyDict
               IN [acc EXCEPT !.mod = Put(acc.mod, id, changed_cells(entry, row, new))]
        ELSE acc
  IN IF df.top = "!" THEN column_edits(acc1, id, df, new) ELSE acc1

\* one iteration of the loop with a context row taken for a deleted row
diff_row_context_as_del(acc, row, df, new, full_replace) ==
  diff_row_body(acc, IF row.op = "..." \/ row.op = "" THEN [row EXCEPT !.op = "---"] ELSE row,
                df, new, full_replace)

\* one iteration of the loop over the rows of the diff table, lines 97-141
diff_row(acc, row, df, new, full_replace) ==
  IF row.op = "..." \/ row.op = "" THEN acc
  ELSE diff_row_body(acc, row, df, new, full_replace)

RECURSIVE diff_rows(_, _, _, _, _)
\* for i in xrange(start_row, len(df)); an exception ends the loop
diff_rows(acc, i, df, new, full_replace) ==
  IF i > Len(df.rows) \/ acc.err # "" THEN acc
  ELSE diff_rows(diff_row(acc, df.rows[i], df, new, full_replace),
                 i + 1, df, new, full_replace)

\* the tables take_diff compares: an edge table gets its composite index
\* and, for `new`, loses its duplicate rows
indexed(diff_type, df, is_new) ==
  IF diff_type = "edge"
  THEN IF is_new THEN drop_duplicates(set_edge_index(df)) ELSE set_edge_index(df)
  ELSE df

take_diff(diff_type, old, new, full_replace, al) ==
  LET old1 == indexed(diff_type, old, FALSE)
      new1 == indexed(diff_type, new, TRUE)
  IN IF ~index_is_unique(old1) \/ ~index_is_unique(new1)
     THEN [EmptyChangeSet EXCEPT !.err = "AssertionError"]
     ELSE diff_rows(EmptyChangeSet, 1, daff(old1, new1, al), new1, full_replace)

diff_nodes(old, new, full_replace, al) == take_diff("node", old, new, full_replace, al)

diff_edges(old, new, full_replace, al) == take_diff("edge", old, new, full_replace, al)

(***************************************************************************)
(* Specification of the diff engine: one call of diff_nodes or diff_edges  *)
(* on a pair of tables.  A is `old`, B is `new`, C the remaining inputs    *)
(* (and the row pairing the diff library settles on), R the outcome.       *)
(***************************************************************************)
DiffInputs(diff_type) == IF diff_type = "edge" THEN EdgeTables ELSE NodeTables

InitDiff ==
  /\ \E diff_type \in {"node", "edge"} :
       /\ A \in DiffInputs(diff_type)
       /\ B \in DiffInputs(diff_type)
       /\ \E full_replace \in BOOLEAN :
            \E al \in IF index_is_unique(indexed(diff_type, A, FALSE))
                      THEN Pairings(indexed(diff_type, A, FALSE), indexed(diff_type, B, TRUE))
                      ELSE {EmptyDict} :
              C = [diff_type |-> diff_type, full_replace |-> full_replace, al |-> al]
  /\ R = Null
  /\ store = Null /\ w = Null /\ last = Null /\ reads = Null

\* R = diff_nodes(A, B, full_replace) or diff_edges(A, B, full_replace)
TakeDiff ==
  /\ R = Null
  /\ R' = IF C.diff_type = "edge"
          THEN diff_edges(A, B, C.full_replace, C.al)
          ELSE diff_nodes(A, B, C.full_replace, C.al)
  /\ UNCHANGED <<store, w, last, reads, A, B, C>>

NextDiff == TakeDiff

SpecDiff == InitDiff /\ [][NextDiff]_vars

Ids(df) == SeqRange(df.ids)

NodeDiffDone == R # Null /\ C.diff_type = "node"

\* the columns in which row `id` differs between old and new
ChangedCols(id) == {col \in A.cols \cap B.cols : ix(A, id)[col] # ix(B, id)[col]}

\* C11: diff(T, T, full_replace=False) of a table T with unique row
\* identifiers is the empty change-set {add: {}, mod: {}, del: {}}.
C11_DiffIdempotent ==
  (/\ R # Null
   /\ A = B
   /\ index_is_unique(indexed(C.diff_type, A, FALSE))
   /\ ~C.full_replace)
  => R = EmptyChangeSet

C11_Witness ==
  /\ NodeDiffDone
  /\ A = B
  /\ Len(A.ids) >= 2
  /\ ~C.full_replace
  /\ R = EmptyChangeSet

\* the only change from old to new is that row identifier l became r
RenameOnly(l, r) ==
  /\ C.diff_type = "node"
  /\ A.cols = B.cols
  /\ l \in Ids(A) \ Ids(B)
  /\ r \in Ids(B) \ Ids(A)
  /\ Ids(B) = (Ids(A) \ {l}) \cup {r}
  /\ ix(B, r) = ix(A, l)
  /\ \A id \in Ids(A) \cap Ids(B) : ix(A, id) = ix(B, id)

\* C12: when the only change between the node tables is that identifier l
\* is replaced by r with the same attribute values, the diff is
\* add = {r: the new row}, del = {l: None}, mod = {}.
C12_RenameDetection ==
  R # Null =>
    \A l, r \in SeqRange(RowIds) :
      RenameOnly(l, r) =>
        R = [err |-> "", mod |-> EmptyDict,
             del |-> Put(EmptyDict, l, None),
             add |-> Put(EmptyDict, r, ix(B, r))]

C12_Witness ==
  /\ R # Null
  /\ RenameOnly("w", "z")
  /\ C.al = Put(EmptyDict, "w", "z")
  /\ Len(A.ids) = 2
  /\ DOMAIN R.add = {"z"} /\ DOMAIN R.del = {"w"} /\ DOMAIN R.mod = {}

\* C13: with full_replace = False, adding a column to every row gives one
\* mod entry per row holding only the new column's cell, removing a column
\* gives one mod entry per row holding the row's remaining columns; add and
\* del stay empty.
C13_ColumnFolding ==
  (/\ NodeDiffDone
   /\ ~C.full_replace
   /\ A.ids = B.ids
   /\ \A id \in Ids(A) : ChangedCols(id) = {})
  => /\ (A.cols \subseteq B.cols /\ A.cols # B.cols) =>
          R = [err |-> "", add |-> EmptyDict, del |-> EmptyDict,
               mod |-> [id \in Ids(B) |-> [col \in B.cols \ A.cols |-> ix(B, id)[col]]]]
     /\ (B.cols \subseteq A.cols /\ A.cols # B.cols) =>
          R = [err |-> "", add |-> EmptyDict, del |-> EmptyDict,
               mod |-> [id \in Ids(B) |-> ix(B, id)]]

\* C14: for node tables with the same columns, an identifier only in new is
\* in add with the new row, an identifier only in old is in del with None,
\* an identifier in both with a changed cell is in mod (with the whole new
\* row under full_replace, with only the changed cells otherwise), and an
\* identifier in both without a changed cell is in none of the three maps.
C14_RowClassification ==
  (NodeDiffDone /\ A.cols = B.cols) =>
    /\ R.err = ""
    /\ \A id \in SeqRange(RowIds) :
         /\ (id \in Ids(B) \ Ids(A)) =>
              id \in DOMAIN R.add /\ R.add[id] = ix(B, id)
         /\ (id \in Ids(A) \ Ids(B)) =>
              id \in DOMAIN R.del /\ R.del[id] = None
         /\ (id \in Ids(A) \cap Ids(B) /\ ChangedCols(id) # {}) =>
              /\ id \in DOMAIN R.mod
              /\ R.mod[id] = IF C.full_replace THEN ix(B, id)
                             ELSE [col \in ChangedCols(id) |-> ix(B, id)[col]]
         /\ (id \in Ids(A) \cap Ids(B) /\ ChangedCols(id) = {}) =>
              id \notin DOMAIN R.add \cup DOMAIN R.mod \cup DOMAIN R.del

C14_Witness ==
  /\ NodeDiffDone
  /\ A.cols = {"a", "b"} /\ B.cols = {"a", "b"}
  /\ ~C.full_replace
  /\ A.ids = <<"w", "x">> /\ B.ids = <<"x", "z">>
  /\ C.al = EmptyDict
  /\ ChangedCols("x") = {"a"}
  /\ DOMAIN R.add = {"z"} /\ DOMAIN R.del = {"w"}
  /\ R.mod = Put(EmptyDict, "x", [col \in {"a"} |-> ix(B, "x")[col]])

\* C15: the change-set returned by diff_nodes / diff_edges has pairwise
\* disjoint key sets for add, mod and del, also when a row addition,
\* deletion or rename coincides with a column addition or removal.
C15_ChangeSetDisjoint ==
  (R # Null /\ R.err = "") =>
    /\ DOMAIN R.add \cap DOMAIN R.mod = {}
    /\ DOMAIN R.add \cap DOMAIN R.del = {}
    /\ DOMAIN R.mod \cap DOMAIN R.del = {}

(***************************************************************************)
(* The batch apply engine (src/neuroarch/apply_diff.py).  A change-set map *)
(* is the sequence of its items (key `k`, value `v`) in iteration order.   *)
(* The store holds its vertices (identifier -> fields), its edges and the  *)
(* position of the next identifier it will assign.                         *)
(***************************************************************************)
MaxEntries == 2

\* largest chunk size of the model; apply_node_diff uses N = 1000 and
\* apply_edge_diff N = 200, scaled here to the size of the change-sets
MaxN == 2

StoreRids == {"#1:0", "#1:1"}

FreshRids == <<"#1:2", "#1:3", "#1:4", "#1:5">>

LogicalIds == {"v1", "v2"}

\* utils.is_rid: the string has the form '#<cluster>:<position>'
is_rid(k) == k \in StoreRids \cup SeqRange(FreshRids)

Store0 ==
  [vertices |-> [r \in StoreRids |-> [class |-> "Neuron", val |-> "0"]],
   edges |-> {[out |-> "#1:0", class |-> "SendsTo", in |-> "#1:1"]},
   next |-> 1]

\* the sequences of at most MaxEntries items with distinct keys from `keys`
ItemsOf(keys, value) ==
  UNION { { [i \in 1..n |-> [k |-> g[i], v |-> value[g[i]]]] :
              g \in { h \in [1..n -> keys] : \A i, j \in 1..n : h[i] = h[j] => i = j } }
          : n \in 0..MaxEntries }

keys_of(items) == [i \in DOMAIN items |-> items[i].k]

\* node change-sets: new cells for mod (None clears the field), the new
\* row for add, None for del
NodeModValue(k) == IF k = "#1:1" THEN [val |-> None] ELSE [val |-> "2"]

NodeAddValue(k) == [class |-> "Neuron", val |-> "1"]

DelValue(k) == None

NodeModKeys == StoreRids \cup {"v1"}

NodeDelKeys == StoreRids \cup {"v1"}

NodeChangeSets ==
  [mod : ItemsOf(NodeModKeys, [k \in NodeModKeys |-> NodeModValue(k)]),
   add : ItemsOf(LogicalIds, [k \in LogicalIds |-> NodeAddValue(k)]),
   del : ItemsOf(NodeDelKeys, [k \in NodeDelKeys |-> DelValue(k)])]

\* edge change-sets: keys are the composite row keys 'out class in'
ApplyEdgeRows ==
  {[out |-> "#1:0", class |-> "SendsTo", in |-> "#1:1"],
   [out |-> "#1:1", class |-> "SendsTo", in |-> "#1:0"],
   [out |-> "v1", class |-> "SendsTo", in |-> "#1:0"]}

\* out_node, edge_class, in_node = k.split(' ')
split_key(k) == CHOOSE row \in ApplyEdgeRows : edge_key(row) = k

EdgeModValue(k) == [weight |-> "2"]

EdgeAddValue(k) == split_key(k)

EdgeModKeys == {"#1:0 SendsTo #1:1"}

EdgeAddKeys == {"#1:1 SendsTo #1:0", "v1 SendsTo #1:0"}

EdgeDelKeys == {edge_key(row) : row \in ApplyEdgeRows}

EdgeChangeSets ==
  [mod : ItemsOf(EdgeModKeys, [k \in EdgeModKeys |-> EdgeModValue(k)]),
   add : ItemsOf(EdgeAddKeys, [k \in EdgeAddKeys |-> EdgeAddValue(k)]),
   del : ItemsOf(EdgeDelKeys, [k \in EdgeDelKeys |-> DelValue(k)])]

\* utils.chunks(it, n): the first chunk of the remaining items, and the rest
first_chunk(items, n) == SubSeq(items, 1, IF Len(items) < n THEN Len(items) ELSE n)

after_first_chunk(items, n) == SubSeq(items, (IF Len(items) < n THEN Len(items) ELSE n) + 1, Len(items))

(***************************************************************************)
(* The store client.  A transaction script is a sequence of statements;    *)
(* client.batch(cmd) commits all of them or none.                          *)
(***************************************************************************)
run_stmt(st, s) ==
  IF s.stmt = "UPDATE" THEN
    IF s.rid \in DOMAIN st.vertices
    THEN [st EXCEPT !.vertices[s.rid] =
            [f \in DOMAIN @ \cup DOMAIN s.set |->
               IF f \in DOMAIN s.set THEN s.set[f] ELSE @[f]]]
    ELSE st
  ELSE IF s.stmt = "CREATE VERTEX" THEN
    [st EXCEPT !.vertices = Put(@, FreshRids[st.next],
                                [f \in {"class"} \cup DOMAIN s.set |->
                                   IF f = "class" THEN s.class ELSE s.set[f]]),
               !.next = @ + 1]
  ELSE IF s.stmt = "DELETE VERTEX" THEN
    [st EXCEPT !.vertices = [r \in DOMAIN @ \ {s.rid} |-> @[r]],
               !.edges = {x \in @ : x.out # s.rid /\ x.in # s.rid}]
  ELSE IF s.stmt = "CREATE EDGE" THEN
    [st EXCEPT !.edges = @ \cup {[out |-> s.from, class |-> s.class, in |-> s.to]}]
  ELSE \* DELETE EDGE from .. to .. where @class = ..
    [st EXCEPT !.edges = {x \in @ : ~(x.out = s.from /\ x.in = s.to /\ x.class = s.class)}]

RECURSIVE run_script(_, _, _)
run_script(st, script, i) ==
  IF i > Len(script) THEN st ELSE run_script(run_stmt(st, script[i]), script, i + 1)

\* the store refuses an edge between identifiers that are not its vertices
script_is_valid(st, script) ==
  \A i \in DOMAIN script :
    script[i].stmt = "CREATE EDGE" =>
      script[i].from \in DOMAIN st.vertices /\ script[i].to \in DOMAIN st.vertices

\* what the script's `return` lists: the identifiers of the vertices it
\* created, the edges it created
script_result(st, script) ==
  LET made == SelectSeq(script, LAMBDA s : s.stmt \in {"CREATE VERTEX", "CREATE EDGE"})
  IN [i \in DOMAIN made |->
        IF made[i].stmt = "CREATE VERTEX" THEN FreshRids[st.next + i - 1]
        ELSE <<made[i].class, made[i].from, made[i].to>>]

\* client.batch(cmd): the store commits the script, or rejects it (`accept`
\* false, or an invalid script) and raises
client_batch(st, script, accept) ==
  IF accept /\ script_is_valid(st, script)
  THEN [err |-> "", store |-> run_script(st, script, 1), result |-> script_result(st, script)]
  ELSE [err |-> "StoreError", store |-> st, result |-> <<>>]

(***************************************************************************)
(* One chunk of each phase.  `b` is the position of the call: the phase    *)
(* index `i`, the items of the phase still to do, rid_list and rid_map.    *)
(* The outcome is the error raised (or ""), the store, the chunk as        *)
(* submitted (or nothing) and the new position.                            *)
(***************************************************************************)
ChunkOutcome(err, st, submitted, b, made) ==
  [err |-> err, store |-> st, log |-> submitted, b |-> b, made |-> made]

Submitted(phase, chunk, script, res) ==
  <<[phase |-> phase, keys |-> keys_of(chunk), script |-> script, committed |-> res.err = ""]>>

\* "%s = NULL" for None / nan, "%s = <repr>" otherwise
null_fields(v) == [f \in DOMAIN v |-> IF v[f] \in {"None", "nan"} THEN None ELSE v[f]]

\* _mod_nodes, one iteration of `for chunk in chunks(d_mod.items(), N)`
mod_nodes_chunk(b, chunk, st, accept) ==
  IF \E i \in DOMAIN chunk : ~is_rid(chunk[i].k)
  THEN ChunkOutcome("ValueError", st, <<>>, b, EmptyDict)
  ELSE LET script == [i \in DOMAIN chunk |->
                        [stmt |-> "UPDATE", rid |-> chunk[i].k, set |-> null_fields(chunk[i].v)]]
           rl == b.rid_list \o keys_of(chunk)
           res == client_batch(st, script, accept)
       IN ChunkOutcome(res.err, res.store, Submitted("mod", chunk, script, res),
                       \* the script returns rid_list, which is appended to rid_list
                       [b EXCEPT !.rid_list = rl \o rl], EmptyDict)

\* _add_nodes, one iteration of `for chunk in chunks(d_add.items(), N)`
add_nodes_chunk(b, chunk, st, accept) ==
  LET script == [i \in DOMAIN chunk |->
                   [stmt |-> "CREATE VERTEX", class |-> chunk[i].v["class"],
                    set |-> [f \in {g \in DOMAIN chunk[i].v :
                                      g # "class" /\ chunk[i].v[g] \notin {"None", "nan"}}
                             |-> chunk[i].v[f]]]]
      res == client_batch(st, script, accept)
      \* {k: r._rid for r in client.batch(cmd)}: k is the last key of the chunk
      k == chunk[Len(chunk)].k
  IN ChunkOutcome(res.err, res.store, Submitted("add", chunk, script, res),
                  IF res.err = ""
                  THEN [b EXCEPT !.rid_map = Append(@, [k |-> k, rid |-> res.result[Len(res.result)]])]
                  ELSE b,
                  IF res.err = ""
                  THEN [x \in {chunk[i].k : i \in DOMAIN chunk} |->
                          res.result[CHOOSE i \in DOMAIN chunk : chunk[i].k = x]]
                  ELSE EmptyDict)

\* _del_nodes, one iteration of `for chunk in chunks(d_del.items(), N)`
del_nodes_chunk(b, chunk, st, accept) ==
  IF \E i \in DOMAIN chunk : ~is_rid(chunk[i].k)
  THEN ChunkOutcome("ValueError", st, <<>>, b, EmptyDict)
  ELSE LET script == [i \in DOMAIN chunk |-> [stmt |-> "DELETE VERTEX", rid |-> chunk[i].k]]
           res == client_batch(st, script, accept)
       IN ChunkOutcome(res.err, res.store, Submitted("del", chunk, script, res), b, EmptyDict)

\* _add_edges, one iteration of `for chunk in chunks(d_add.items(), N)`
add_edges_chunk(b, chunk, st, accept) ==
  LET script == [i \in DOMAIN chunk |->
                   [stmt |-> "CREATE EDGE", class |-> chunk[i].v["class"],
                    from |-> chunk[i].v["out"], to |-> chunk[i].v["in"]]]
      res == client_batch(st, script, accept)
  IN ChunkOutcome(res.err, res.store, Submitted("add", chunk, script, res),
                  [b EXCEPT !.rid_list = @ \o res.result], EmptyDict)

\* _del_edges, one iteration of `for chunk in chunks(d_del.items(), N)`
del_edges_chunk(b, chunk, st, accept) ==
  IF \E i \in DOMAIN chunk :
       ~(is_rid(split_key(chunk[i].k)["in"]) /\ is_rid(split_key(chunk[i].k)["out"]))
  THEN ChunkOutcome("ValueError", st, <<>>, b, EmptyDict)
  ELSE LET script == [i \in DOMAIN chunk |->
                        [stmt |-> "DELETE EDGE", from |-> split_key(chunk[i].k)["out"],
                         to |-> split_key(chunk[i].k)["in"],
                         class |-> split_key(chunk[i].k)["class"]]]
           res == client_batch(st, script, accept)
       IN ChunkOutcome(res.err, res.store, Submitted("del", chunk, script, res), b, EmptyDict)

(***************************************************************************)
(* apply_node_diff and apply_edge_diff: the phases of a call, in order,    *)
(* and the items each phase works on.                                      *)
(***************************************************************************)
has_key(items, k) == \E i \in DOMAIN items : items[i].k = k

\* the phases with additions first
phases_add_first(kind) == IF kind = "node" THEN <<"add", "mod", "del">> ELSE <<"add", "del">>

phases(kind) == IF kind = "node" THEN <<"mod", "add", "del">> ELSE <<"add", "del">>

\* d_mod, d_add and d['del'] of the call
phase_items(kind, d, phase) ==
  IF phase = "mod"
  THEN SelectSeq(d.mod, LAMBDA it : ~has_key(d.add, it.k) /\ ~has_key(d.del, it.k))
  ELSE IF phase = "add"
  THEN SelectSeq(d.add, LAMBDA it : ~has_key(d.del, it.k))
  ELSE d.del

RECURSIVE next_phase(_, _, _)
\* the first phase from position i on that has items
next_phase(kind, d, i) ==
  IF i > Len(phases(kind)) THEN i
  ELSE IF phase_items(kind, d, phases(kind)[i]) # <<>> THEN i
  ELSE next_phase(kind, d, i + 1)

enter_phase(kind, d, i, b) ==
  LET j == next_phase(kind, d, i)
  IN [b EXCEPT !.i = j,
               !.todo = IF j > Len(phases(kind)) THEN <<>>
                        ELSE phase_items(kind, d, phases(kind)[j])]

\* after a committed chunk: the rest of the phase, or the next phase;
\* leaving _add_nodes, `rid_list += rid_map` appends the keys of rid_map
after_chunk(kind, d, N, b) ==
  LET rest == after_first_chunk(b.todo, N)
  IN IF rest # <<>> THEN [b EXCEPT !.todo = rest]
     ELSE enter_phase(kind, d, b.i + 1,
                      IF kind = "node" /\ phases(kind)[b.i] = "add"
                      THEN [b EXCEPT !.rid_list = @ \o keys_of(b.rid_map)]
                      ELSE b)

\* an error raised in a chunk ends the call; here a rejected chunk is
\* passed over and the call goes on
call_after_chunk_swallowing(kind, d, N, b, out) ==
  IF out.err = "ValueError"
  THEN [R |-> [err |-> out.err], b |-> b]
  ELSE [R |-> Null, b |-> after_chunk(kind, d, N, IF out.err = "" THEN out.b ELSE b)]

\* no phase is wrapped in try/except: an error raised in a chunk ends the
\* call with that error, otherwise the call goes on with the next chunk
call_after_chunk(kind, d, N, b, out) ==
  IF out.err # ""
  THEN [R |-> [err |-> out.err], b |-> b]
  ELSE [R |-> Null, b |-> after_chunk(kind, d, N, out.b)]

\* QueryWrapper.from_rids(graph, *rid_list)
from_rids(rid_list) ==
  IF Len(rid_list) = 0 THEN [err |-> "", q |-> QNone]
  ELSE IF \A i \in DOMAIN rid_list : is_rid(rid_list[i])
  THEN [err |-> "", q |-> QRids(SeqRange(rid_list))]
  ELSE [err |-> "AssertionError", q |-> QNone]

(***************************************************************************)
(* Specification of the apply engine: one call of apply_node_diff or       *)
(* apply_edge_diff, a step per transaction sent to the store.  A is the    *)
(* call (kind, change-set d, chunk size N), B its position, C the chunks   *)
(* submitted so far, R its outcome: the error raised, or the returned list *)
(* and, for nodes, what diff_save makes of it.  `last` records which       *)
(* vertex the store created for which key.                                 *)
(***************************************************************************)
InitApply ==
  /\ \E kind \in {"node", "edge"}, N \in 1..MaxN :
       \E d \in IF kind = "node" THEN NodeChangeSets ELSE EdgeChangeSets :
         /\ A = [kind |-> kind, d |-> d, N |-> N]
         /\ B = enter_phase(kind, d, 1,
                            [i |-> 1, todo |-> <<>>, rid_list |-> <<>>, rid_map |-> <<>>])
  /\ store = Store0
  /\ C = <<>>
  /\ R = Null
  /\ last = [made |-> EmptyDict]
  /\ w = Null /\ reads = Null

AtPhase(kind, phase) ==
  /\ R = Null
  /\ A.kind = kind
  /\ B.i <= Len(phases(kind))
  /\ phases(kind)[B.i] = phase

Chunk(out) ==
  LET next == call_after_chunk(A.kind, A.d, A.N, B, out)
  IN /\ store' = out.store
     /\ C' = C \o out.log
     /\ last' = [made |-> [k \in DOMAIN last.made \cup DOMAIN out.made |->
                             IF k \in DOMAIN out.made THEN out.made[k] ELSE last.made[k]]]
     /\ R' = next.R
     /\ B' = next.b
     /\ UNCHANGED <<w, reads, A>>

ModNodes ==
  /\ AtPhase("node", "mod")
  /\ \E accept \in BOOLEAN :
       Chunk(mod_nodes_chunk(B, first_chunk(B.todo, A.N), store, accept))

AddNodes ==
  /\ AtPhase("node", "add")
  /\ \E accept \in BOOLEAN :
       Chunk(add_nodes_chunk(B, first_chunk(B.todo, A.N), store, accept))

DelNodes ==
  /\ AtPhase("node", "del")
  /\ \E accept \in BOOLEAN :
       Chunk(del_nodes_chunk(B, first_chunk(B.todo, A.N), store, accept))

AddEdges ==
  /\ AtPhase("edge", "add")
  /\ \E accept \in BOOLEAN :
       Chunk(add_edges_chunk(B, first_chunk(B.todo, A.N), store, accept))

DelEdges ==
  /\ AtPhase("edge", "del")
  /\ \E accept \in BOOLEAN :
       Chunk(del_edges_chunk(B, first_chunk(B.todo, A.N), store, accept))

\* `return rid_list`; diff_save wraps the list returned for the nodes
Return ==
  /\ R = Null
  /\ B.i > Len(phases(A.kind))
  /\ R' = [err |-> "", ret |-> B.rid_list,
           saved |-> IF A.kind = "node" THEN from_rids(B.rid_list) ELSE Null]
  /\ UNCHANGED <<store, w, last, reads, A, B, C>>

NextApply == ModNodes \/ AddNodes \/ DelNodes \/ AddEdges \/ DelEdges \/ Return

SpecApply == InitApply /\ [][NextApply]_vars

PhaseRank(phase) == IF phase = "mod" THEN 1 ELSE IF phase = "add" THEN 2 ELSE 3

RECURSIVE LoggedKeys(_, _)
\* the keys of the chunks of `phase` among the first n submitted chunks
LoggedKeys(phase, n) ==
  IF n = 0 THEN <<>>
  ELSE LoggedKeys(phase, n - 1) \o (IF C[n].phase = phase THEN C[n].keys ELSE <<>>)

IsPrefix(s, t) == Len(s) <= Len(t) /\ s = SubSeq(t, 1, Len(s))

Returned == R # Null /\ R.err = ""

\* C16: within one apply call every modification chunk is committed before
\* an addition chunk is submitted and every addition chunk before a deletion
\* chunk is submitted; within a phase the chunks follow the iteration order
\* of the change-set map.
C16_PhaseOrder ==
    /\ \A i, j \in DOMAIN C :
         i < j => PhaseRank(C[i].phase) <= PhaseRank(C[j].phase) /\ C[i].committed
    /\ \A phase \in {"mod", "add", "del"} :
         IsPrefix(LoggedKeys(phase, Len(C)), keys_of(phase_items(A.kind, A.d, phase)))
    /\ \A i \in DOMAIN C : Len(C[i].keys) <= A.N

C16_Witness ==
  /\ Returned
  /\ A.kind = "node"
  /\ [i \in DOMAIN C |-> C[i].phase] = <<"mod", "add", "add", "del">>
  /\ \A i \in DOMAIN C : C[i].committed
  /\ LoggedKeys("add", Len(C)) = <<"v2", "v1">>

\* C17: apply_edge_diff processes the mod map: every entry of the edge
\* change-set's mod map results in an update statement sent to the store.
C17_EdgeModsApplied ==
  (Returned /\ A.kind = "edge") =>
    \A m \in DOMAIN A.d.mod :
      \E i \in DOMAIN C :
        /\ C[i].phase = "mod"
        /\ C[i].committed
        /\ \E s \in DOMAIN C[i].keys :
             C[i].keys[s] = A.d.mod[m].k /\ C[i].script[s].stmt = "UPDATE"

\* C18: apply_node_diff returns, for each added key, the identifier the
\* store assigned to the vertex created for it, and diff_save returns the
\* QueryWrapper over the identifiers of the modified and the created nodes.
C18_AddedIdsReturned ==
  (Returned /\ A.kind = "node") =>
    /\ \A k \in DOMAIN last.made : last.made[k] \in SeqRange(R.ret)
    /\ R.saved = from_rids(R.ret)
    /\ R.saved.err = ""
    /\ (R.ret # <<>>) =>
         R.saved.q = QRids(SeqRange(keys_of(phase_items("node", A.d, "mod")))
                           \cup {last.made[k] : k \in DOMAIN last.made})

\* C19: a node mod or del entry whose key is not a store identifier, and an
\* edge del entry with an endpoint that is not one, makes the call raise.
C19_BareIdsRaise ==
  Returned =>
    /\ A.kind = "node" =>
         /\ \A i \in DOMAIN A.d.mod : is_rid(A.d.mod[i].k)
         /\ \A i \in DOMAIN A.d.del : is_rid(A.d.del[i].k)
    /\ A.kind = "edge" =>
         \A i \in DOMAIN A.d.del :
           /\ is_rid(split_key(A.d.del[i].k)["out"])
           /\ is_rid(split_key(A.d.del[i].k)["in"])

\* the store as the committed chunks among the first n leave it
RECURSIVE Committed(_)
Committed(n) ==
  IF n = 0 THEN Store0
  ELSE IF C[n].committed THEN run_script(Committed(n - 1), C[n].script, 1)
  ELSE Committed(n - 1)

\* C20: when the store rejects a chunk the call ends with the store's error,
\* no later chunk is submitted, and the store keeps the effects of exactly
\* the chunks committed before (no rollback, no retry).
C20_RejectedChunkAborts ==
    /\ \A i \in DOMAIN C : ~C[i].committed => i = Len(C) /\ R = [err |-> "StoreError"]
    /\ (R # Null /\ R.err = "StoreError") => C # <<>> /\ ~C[Len(C)].committed
    /\ store = Committed(Len(C))
    /\ \A i, j \in DOMAIN C : i < j => C[i].keys # C[j].keys \/ C[i].phase # C[j].phase

C20_Witness ==
  /\ R = [err |-> "StoreError"]
  /\ A.kind = "node"
  /\ Len(C) = 3
  /\ store # Store0
  /\ Len(B.todo) > A.N

(***************************************************************************)
(* A whole call on a store that accepts every transaction, as a function   *)
(* of the chunk size.                                                      *)
(***************************************************************************)
\* the helper that a (kind, phase) pair runs on a chunk
phase_chunk(kind, phase, b, chunk, st, accept) ==
  IF kind = "node"
  THEN IF phase = "mod" THEN mod_nodes_chunk(b, chunk, st, accept)
       ELSE IF phase = "add" THEN add_nodes_chunk(b, chunk, st, accept)
       ELSE del_nodes_chunk(b, chunk, st, accept)
  ELSE IF phase = "add" THEN add_edges_chunk(b, chunk, st, accept)
       ELSE del_edges_chunk(b, chunk, st, accept)

RECURSIVE apply_from(_, _, _, _, _, _)
\* the call from position b on: the error it ends with, the store it
\* leaves, its rid_list and the chunks it submitted
apply_from(kind, d, N, b, st, log) ==
  IF b.i > Len(phases(kind))
  THEN [err |-> "", store |-> st, ret |-> b.rid_list, log |-> log]
  ELSE LET out == phase_chunk(kind, phases(kind)[b.i], b, first_chunk(b.todo, N), st, TRUE)
           next == call_after_chunk(kind, d, N, b, out)
       IN IF next.R # Null
          THEN [err |-> out.err, store |-> out.store, ret |-> <<>>, log |-> log \o out.log]
          ELSE apply_from(kind, d, N, next.b, out.store, log \o out.log)

\* apply_node_diff(client, d) / apply_edge_diff(client, d) with chunk size N
apply_diff(kind, d, N, st) ==
  apply_from(kind, d, N,
             enter_phase(kind, d, 1, [i |-> 1, todo |-> <<>>, rid_list |-> <<>>, rid_map |-> <<>>]),
             st, <<>>)

\* the call has ended and the store rejected none of its transactions
EndedUnrejected == R # Null /\ \A i \in DOMAIN C : C[i].committed

\* C21: for a fixed change-set and a store that accepts every transaction,
\* the store after the call is the same for every chunk size N >= 1.
C21_ChunkSizeIndependent ==
  EndedUnrejected =>
    \A N \in 1..MaxN :
      apply_diff(A.kind, A.d, N, Store0).err # "StoreError" =>
        store = apply_diff(A.kind, A.d, N, Store0).store

\* C28: when apply_node_diff raises because a mod or del key is not a store
\* identifier, the call has committed no transaction and the store is as it
\* was before the call.
C28_PreconditionBeforeCommit ==
  (R # Null /\ R.err = "ValueError" /\ A.kind = "node") =>
    /\ C = <<>>
    /\ store = Store0

(***************************************************************************)
(* Synchronization: QueryWrapper.diff_save(new_df_nodes, new_df_edges) on  *)
(* a wrapper whose caches hold the whole store (src/neuroarch/query.py).   *)
(* The vertices carry no 'id' property, so get_as() keys the node rows by  *)
(* their store identifiers.                                                *)
(***************************************************************************)
\* the order in which the store returns its records
RidOrder == <<"#1:0", "#1:1">> \o FreshRids

SetToSeq(S) == CHOOSE s \in [1..Cardinality(S) -> S] : \A i, j \in DOMAIN s : s[i] = s[j] => i = j

\* conv.pd.as_pandas(nodes, edges): a row per record; a missing field is
\* nan; without edge records the edge table has no columns
as_pandas(st) ==
  LET rids == SelectSeq(RidOrder, LAMBDA r : r \in DOMAIN st.vertices)
      cols == UNION {DOMAIN st.vertices[r] : r \in DOMAIN st.vertices}
      es == SetToSeq(st.edges)
  IN [nodes |-> DataFrame(rids, cols,
                          [i \in DOMAIN rids |->
                             [col \in cols |-> IF col \in DOMAIN st.vertices[rids[i]]
                                               THEN st.vertices[rids[i]][col] ELSE "nan"]]),
      edges |-> DataFrame([i \in DOMAIN es |-> RawLabels[i]],
                          IF es = <<>> THEN {} ELSE {"out", "class", "in"}, es)]

\* the rows are kept whatever `del_nodes` holds
remove_edges_by_node_keeping_all(df, del_nodes) ==
  IF "in" \notin df.cols \/ "out" \notin df.cols
  THEN [err |-> "KeyError", df |-> df]
  ELSE [err |-> "", df |-> df]

\* _remove_edges_by_node: df[~df['in'].isin(del_nodes) & ~df['out'].isin(del_nodes)]
remove_edges_by_node(df, del_nodes) ==
  IF "in" \notin df.cols \/ "out" \notin df.cols
  THEN [err |-> "KeyError", df |-> df]
  ELSE [err |-> "",
        df |-> take_rows(df, {i \in DOMAIN df.ids :
                                df.vals[i]["in"] \notin del_nodes /\ df.vals[i]["out"] \notin del_nodes})]

\* the orders in which a dict can list its keys
Orderings(S) == {s \in [1..Cardinality(S) -> S] : \A i, j \in DOMAIN s : s[i] = s[j] => i = j}

\* d.items() listed in the order s
items(d, s) == [i \in DOMAIN s |-> [k |-> s[i], v |-> d[s[i]]]]

\* the change-sets a diff result can be iterated as
ChangeSetsOf(r) ==
  {[mod |-> items(r.mod, sm), add |-> items(r.add, sa), del |-> items(r.del, sd)] :
     sm \in Orderings(DOMAIN r.mod), sa \in Orderings(DOMAIN r.add), sd \in Orderings(DOMAIN r.del)}

\* the tables a caller passes as `new`: rows of the old table kept, edited
\* or dropped, a row added under the logical identifier v1, a column added
\* or removed
SaveColumnSets == {{"class", "val"}, {"class"}, {"class", "val", "b"}}

SaveValues == {"0", "1"}

NewNodeRow(K, val) ==
  [col \in K |-> IF col = "class" THEN "Neuron" ELSE IF col = "val" THEN val ELSE "1"]

NewNodeTables ==
  UNION { UNION { { take_rows(DataFrame(SaveRowIds, K,
                                        [i \in DOMAIN SaveRowIds |-> NewNodeRow(K, f[SaveRowIds[i]])]),
                              {i \in DOMAIN SaveRowIds : SaveRowIds[i] \in S})
                    : f \in [SeqRange(SaveRowIds) -> IF "val" \in K THEN SaveValues ELSE {"0"}] }
                  : S \in SUBSET SeqRange(SaveRowIds) }
          : K \in SaveColumnSets }

NewEdgeTables ==
  { LET es == SelectSeq(SetToSeq(ApplyEdgeRows), LAMBDA row : row \in S)
    IN DataFrame([i \in DOMAIN es |-> RawLabels[i]], {"out", "class", "in"}, es)
    : S \in SUBSET ApplyEdgeRows }

SaveStores ==
  {[Store0 EXCEPT !.edges = E] :
     E \in SUBSET {[out |-> "#1:0", class |-> "SendsTo", in |-> "#1:1"],
                   [out |-> "#1:1", class |-> "SendsTo", in |-> "#1:0"]}}

(***************************************************************************)
(* Specification of diff_save: A is the call (new tables, full_replace,    *)
(* chunk size), B its position and locals (old tables, d_n, d_e), C the    *)
(* transactions sent to the store, `last` the store before the call, R the *)
(* outcome.                                                                *)
(***************************************************************************)
InitSave ==
  /\ store \in SaveStores
  /\ \E nodes \in NewNodeTables, edges \in NewEdgeTables, full_replace \in BOOLEAN, N \in 1..MaxN :
       A = [nodes |-> nodes, edges |-> edges, full_replace |-> full_replace, N |-> N]
  /\ B = [pc |-> "get_as", old_nodes |-> Null, old_edges |-> Null,
          d_n |-> Null, d_e |-> Null, rid_list |-> <<>>]
  /\ C = <<>>
  /\ R = Null
  /\ last = store
  /\ w = Null /\ reads = Null

\* old_df_nodes, old_df_edges = self.get_as()
GetAs ==
  /\ R = Null /\ B.pc = "get_as"
  /\ B' = [B EXCEPT !.pc = "diff",
                    !.old_nodes = as_pandas(store).nodes,
                    !.old_edges = as_pandas(store).edges]
  /\ UNCHANGED <<store, w, last, reads, A, C, R>>

\* d_n = diff_nodes(..); the edge tables filtered; d_e = diff_edges(..)
DiffTables ==
  /\ R = Null /\ B.pc = "diff"
  /\ \E aln \in Pairings(B.old_nodes, A.nodes) :
       LET dn == diff_nodes(B.old_nodes, A.nodes, A.full_replace, aln)
           oe == remove_edges_by_node(B.old_edges, DOMAIN dn.del)
           ne == remove_edges_by_node(A.edges, DOMAIN dn.del)
       IN IF dn.err # ""
          THEN R' = [err |-> dn.err] /\ B' = [B EXCEPT !.pc = "done"]
          ELSE IF oe.err # "" \/ ne.err # ""
          THEN R' = [err |-> "KeyError"] /\ B' = [B EXCEPT !.pc = "done"]
          ELSE \E ale \in Pairings(indexed("edge", oe.df, FALSE), indexed("edge", ne.df, TRUE)) :
                 LET de == diff_edges(oe.df, ne.df, A.full_replace, ale)
                 IN IF de.err # ""
                    THEN R' = [err |-> de.err] /\ B' = [B EXCEPT !.pc = "done"]
                    ELSE /\ R' = R
                         /\ \E cn \in ChangeSetsOf(dn), ce \in ChangeSetsOf(de) :
                              B' = [B EXCEPT !.pc = "apply_nodes", !.d_n = cn, !.d_e = ce]
  /\ UNCHANGED <<store, w, last, reads, A, C>>

\* rid_list = apply_node_diff(self._graph.client, d_n)
ApplyNodeDiff ==
  /\ R = Null /\ B.pc = "apply_nodes"
  /\ LET out == apply_diff("node", B.d_n, A.N, store)
     IN /\ store' = out.store
        /\ C' = C \o out.log
        /\ IF out.err # ""
           THEN R' = [err |-> out.err] /\ B' = [B EXCEPT !.pc = "done"]
           ELSE R' = R /\ B' = [B EXCEPT !.pc = "apply_edges", !.rid_list = out.ret]
  /\ UNCHANGED <<w, last, reads, A>>

\* edge_rid_list = apply_edge_diff(self._graph.client, d_e)
ApplyEdgeDiff ==
  /\ R = Null /\ B.pc = "apply_edges"
  /\ LET out == apply_diff("edge", B.d_e, A.N, store)
     IN /\ store' = out.store
        /\ C' = C \o out.log
        /\ IF out.err # ""
           THEN R' = [err |-> out.err] /\ B' = [B EXCEPT !.pc = "done"]
           ELSE R' = R /\ B' = [B EXCEPT !.pc = "from_rids"]
  /\ UNCHANGED <<w, last, reads, A>>

\* return self.from_rids(self._graph, *rid_list)
FromRids ==
  /\ R = Null /\ B.pc = "from_rids"
  /\ R' = [err |-> from_rids(B.rid_list).err, ret |-> B.rid_list, saved |-> from_rids(B.rid_list)]
  /\ B' = [B EXCEPT !.pc = "done"]
  /\ UNCHANGED <<store, w, last, reads, A, C>>

NextSave == GetAs \/ DiffTables \/ ApplyNodeDiff \/ ApplyEdgeDiff \/ FromRids

SpecSave == InitSave /\ [][NextSave]_vars

(***************************************************************************)
(* Properties of SpecSave.                                                 *)
(***************************************************************************)
\* the fields of a row or a vertex that hold a value
live(v) == [f \in {g \in DOMAIN v : v[g] \notin {None, "nan"}} |-> v[f]]

\* every endpoint of the new edge table is a row of the new node table
NewIsConsistent ==
  \A i \in DOMAIN A.edges.ids :
    A.edges.vals[i]["in"] \in Ids(A.nodes) /\ A.edges.vals[i]["out"] \in Ids(A.nodes)

DisjointKeys(d) ==
  /\ SeqRange(keys_of(d.add)) \cap SeqRange(keys_of(d.mod)) = {}
  /\ SeqRange(keys_of(d.add)) \cap SeqRange(keys_of(d.del)) = {}
  /\ SeqRange(keys_of(d.mod)) \cap SeqRange(keys_of(d.del)) = {}

\* the store renders to the new tables, up to the identifiers the store
\* assigned to the added rows
RoundTrip(st) ==
  \E m \in [Ids(A.nodes) -> DOMAIN st.vertices] :
    /\ \A x, y \in Ids(A.nodes) : m[x] = m[y] => x = y
    /\ {m[x] : x \in Ids(A.nodes)} = DOMAIN st.vertices
    /\ \A x \in Ids(A.nodes) \cap DOMAIN last.vertices : m[x] = x
    /\ \A x \in Ids(A.nodes) : live(st.vertices[m[x]]) = live(ix(A.nodes, x))
    /\ st.edges = {[out |-> m[r["out"]], class |-> r["class"], in |-> m[r["in"]]] :
                     r \in SeqRange(A.edges.vals)}

\* C22: when diff_save has ended on tables old (rendered from the store) and
\* new whose changes touch disjoint row identifiers, the store renders to
\* tables equal to new, up to the store-assigned identifiers of added rows
\* (edges of new that end in an added row included).
C22_RoundTrip ==
  (/\ R # Null
   /\ NewIsConsistent
   /\ B.d_n # Null => (DisjointKeys(B.d_n) /\ DisjointKeys(B.d_e)))
  => RoundTrip(store)

\* the endpoints an edge change-set names in its keys and in the rows it adds
ChangeSetEndpoints(d) ==
  UNION { UNION { {split_key(d[m][i].k)["in"], split_key(d[m][i].k)["out"]}
                  : i \in DOMAIN d[m] }
          : m \in {"mod", "add", "del"} }
  \cup UNION { {d.add[i].v["in"], d.add[i].v["out"]} : i \in DOMAIN d.add }

\* C25: the edge change-set handed to apply_edge_diff has no add, mod or
\* del entry with an endpoint that is a key of the node change-set's del map.
C25_EdgeConsistency ==
  B.d_e # Null =>
    ChangeSetEndpoints(B.d_e) \cap SeqRange(keys_of(B.d_n.del)) = {}

\* C25 witness: a node row was deleted, both edge tables had rows touching
\* it, and the edge diff still adds an edge between other rows
C25_Witness ==
  /\ B.d_e # Null
  /\ keys_of(B.d_n.del) = <<"#1:1">>
  /\ \E i \in DOMAIN B.old_edges.ids : B.old_edges.vals[i]["in"] = "#1:1"
  /\ \E i \in DOMAIN A.edges.ids : A.edges.vals[i]["out"] = "#1:1"
  /\ keys_of(B.d_e.add) = <<"v1 SendsTo #1:0">>
  /\ B.d_e.del = <<>>

\* C26: every edge-create and edge-delete statement sent to the store has
\* store identifiers as both endpoints.
C26_EdgeStatementsUseStoreIds ==
  \A i \in DOMAIN C :
    \A j \in DOMAIN C[i].script :
      C[i].script[j].stmt \in {"CREATE EDGE", "DELETE EDGE"} =>
        is_rid(C[i].script[j].from) /\ is_rid(C[i].script[j].to)

(***************************************************************************)
(* Tagging a query result (tag_query_result_node).  The store holds the    *)
(* QueryResult entities [id, tag, content] (content: the field names the   *)
(* entity carries), the HasQueryResults edges in the order of their        *)
(* creation and the position of the next entity; QueryResult.tag has a     *)
(* unique index.                                                           *)
(***************************************************************************)
TagNames == {"t", "u"}
TagNodes == {"n1", "n2"}

\* a check that never finds the tag
check_tags_none(st, tag) ==
  {}

\* QueryWrapper._check_tags: "select tag from QueryResult where tag = '<tag>'"
check_tags(st, tag) ==
  {q \in st.qrs : q.tag = tag}

\* graph.QueryResults.create(tag=tag): the unique index on tag refuses a
\* second entity with the same tag
QueryResults_create(st, tag) ==
  IF \E q \in st.qrs : q.tag = tag
  THEN [err |-> "ORecordDuplicatedException", store |-> st, id |-> None]
  ELSE [err |-> "",
        store |-> [st EXCEPT !.qrs = @ \cup {[id |-> st.next, tag |-> tag,
                                               content |-> {"tag"}]},
                             !.next = @ + 1],
        id |-> st.next]

\* 'update QueryResult content <kwargs with tag> where @rid = <id>'
update_content(st, id, tag, kwargs) ==
  [st EXCEPT !.qrs = {IF q.id = id
                      THEN [id |-> id, tag |-> tag, content |-> kwargs \cup {"tag"}]
                      ELSE q : q \in @}]

\* the batch of 'CREATE EDGE HasQueryResults FROM <id> TO <node>', one
\* statement per key of the node cache
create_edges(st, id, nodes) ==
  LET keys == SetToSeq(nodes)
  IN [st EXCEPT !.hqr = @ \o [i \in 1..Len(keys) |-> [from |-> id, to |-> keys[i]]]]

\* QueryWrapper.tag_query_result_node(tag, permanent_flag, **kwargs) run
\* without another client in between
tag_query_result_node(st, nodes, tag, kwargs) ==
  IF check_tags(st, tag) # {}
  THEN [ret |-> <<-1>>, err |-> "", store |-> st]
  ELSE LET qr == QueryResults_create(st, tag)
       IN IF qr.err # ""
          THEN [ret |-> <<>>, err |-> qr.err, store |-> qr.store]
          ELSE [ret |-> <<1>>, err |-> "",
                store |-> create_edges(update_content(qr.store, qr.id, tag, kwargs),
                                       qr.id, nodes)]

(***************************************************************************)
(* Two callers, each with its own wrapper (node cache `nodes`), tag and    *)
(* keyword arguments.  C maps a caller to its call: pc is its position in  *)
(* the method, qr the entity it created, ret the value it returned (<<>>     *)
(* while it has returned none), err the exception it raised.  B is the     *)
(* store as it was before the calls.                                       *)
(***************************************************************************)
Callers == {"a", "b"}

TagStores ==
  {[qrs |-> {}, hqr |-> <<>>, next |-> 1],
   [qrs |-> {[id |-> 0, tag |-> "t", content |-> {"tag"}]},
    hqr |-> <<[from |-> 0, to |-> "n1"]>>, next |-> 1]}

TagCalls ==
  [tag : TagNames, nodes : SUBSET TagNodes, kwargs : {{}, {"keywords"}},
   pc : {"check"}, qr : {None}, ret : {<<>>}, err : {""}]

InitTag ==
  /\ store \in TagStores
  /\ C \in [Callers -> TagCalls]
  /\ B = store
  /\ last = [op |-> "init"]
  /\ w = Null /\ reads = Null /\ A = Null /\ R = Null

\* a caller runs the whole method
TagCall ==
  \E c \in Callers :
    LET r == tag_query_result_node(store, C[c].nodes, C[c].tag, C[c].kwargs)
    IN /\ C[c].pc = "check"
       /\ store' = r.store
       /\ C' = [C EXCEPT ![c].pc = IF r.err = "" THEN "done" ELSE "raised",
                         ![c].ret = r.ret, ![c].err = r.err]
       /\ last' = [op |-> "tag", caller |-> c]
       /\ UNCHANGED <<w, reads, A, B, R>>

NextTagSeq == TagCall

\* the callers call one after the other
SpecTagSeq == InitTag /\ [][NextTagSeq]_vars

\* if self._check_tags(tag): return -1
CheckTags ==
  \E c \in Callers :
    /\ C[c].pc = "check"
    /\ C' = IF check_tags(store, C[c].tag) # {}
            THEN [C EXCEPT ![c].pc = "done", ![c].ret = <<-1>>]
            ELSE [C EXCEPT ![c].pc = "create"]
    /\ last' = [op |-> "check", caller |-> c]
    /\ UNCHANGED <<store, w, reads, A, B, R>>

\* qr = self._graph.QueryResults.create(tag=tag)
CreateQR ==
  \E c \in Callers :
    LET r == QueryResults_create(store, C[c].tag)
    IN /\ C[c].pc = "create"
       /\ store' = r.store
       /\ C' = IF r.err # ""
               THEN [C EXCEPT ![c].pc = "raised", ![c].err = r.err]
               ELSE [C EXCEPT ![c].pc = "update", ![c].qr = r.id]
       /\ last' = [op |-> "create", caller |-> c]
       /\ UNCHANGED <<w, reads, A, B, R>>

\* the 'update ... content ...' command
UpdateContent ==
  \E c \in Callers :
    /\ C[c].pc = "update"
    /\ store' = update_content(store, C[c].qr, C[c].tag, C[c].kwargs)
    /\ C' = [C EXCEPT ![c].pc = "edges"]
    /\ last' = [op |-> "update", caller |-> c]
    /\ UNCHANGED <<w, reads, A, B, R>>

\* the batch of edge statements, then return 1
CreateEdges ==
  \E c \in Callers :
    /\ C[c].pc = "edges"
    /\ store' = create_edges(store, C[c].qr, C[c].nodes)
    /\ C' = [C EXCEPT ![c].pc = "done", ![c].ret = <<1>>]
    /\ last' = [op |-> "edges", caller |-> c]
    /\ UNCHANGED <<w, reads, A, B, R>>

NextTag == CheckTags \/ CreateQR \/ UpdateContent \/ CreateEdges

\* the callers' store commands interleave
SpecTag == InitTag /\ [][NextTag]_vars

(***************************************************************************)
(* Properties of SpecTagSeq and SpecTag.                                   *)
(***************************************************************************)
\* the edges of st2 that st does not have yet
NewEdges(st, st2) == SubSeq(st2.hqr, Len(st.hqr) + 1, Len(st2.hqr))

\* C23: a call whose tag already names an annotation entity returns -1,
\* raises nothing and creates no entity and no edge; any other call
\* creates exactly one annotation entity with the tag and exactly one
\* reference edge from it to each node of the node cache, and returns 1.
C23_TagIdempotent ==
  [][\A c \in Callers :
       (C[c].pc = "check" /\ C'[c].pc # "check") =>
         IF \E q \in store.qrs : q.tag = C[c].tag
         THEN /\ C'[c].ret = <<-1>> /\ C'[c].err = ""
              /\ store' = store
         ELSE /\ C'[c].ret = <<1>> /\ C'[c].err = ""
              /\ \E q \in store'.qrs :
                   /\ q.tag = C[c].tag
                   /\ q.id \notin {x.id : x \in store.qrs}
                   /\ store'.qrs = store.qrs \cup {q}
                   /\ Len(store'.hqr) = Len(store.hqr) + Cardinality(C[c].nodes)
                   /\ SubSeq(store'.hqr, 1, Len(store.hqr)) = store.hqr
                   /\ \A x \in SeqRange(NewEdges(store, store')) : x.from = q.id
                   /\ {x.to : x \in SeqRange(NewEdges(store, store'))} = C[c].nodes]_vars

\* C23 witness: the first call created the entity of a new tag with an edge
\* to each of two cached nodes, and the second call with the same tag
\* returned -1
C23_Witness ==
  /\ C["a"].tag = "u" /\ C["b"].tag = "u"
  /\ C["a"].nodes = TagNodes /\ C["b"].nodes = TagNodes
  /\ \E c \in Callers, d \in Callers :
       /\ C[c].pc = "done" /\ C[c].ret = <<1>>
       /\ C[d].pc = "done" /\ C[d].ret = <<-1>>
  /\ Cardinality({q \in store.qrs : q.tag = "u"}) = 1
  /\ Len(NewEdges(B, store)) = 2

\* C30: when two callers tag with the same tag, which the store does not
\* hold yet, then in every interleaving at most one annotation entity with
\* that tag is created, one caller returns 1 and the other returns -1.
C30_ConcurrentTagging ==
  (/\ C["a"].tag = C["b"].tag
   /\ check_tags(B, C["a"].tag) = {}
   /\ \A c \in Callers : C[c].pc \in {"done", "raised"})
  => /\ Cardinality({q \in store.qrs : q.tag = C["a"].tag}) <= 1
     /\ {C["a"].ret, C["b"].ret} = {<<1>>, <<-1>>}

====
